---- MODULE Spec2Model ----
(***************************************************************************)
(* Frame scheduler (RayQueryPipeline::drawFrame), indirect-draw command    *)
(* generator (ResourceManager::updateIndirectDrawBuffers) and per-frame    *)
(* TLAS update (ResourceManager::recordTLASUpdate) of the ray-query        *)
(* renderer, with the GPU as a second, asynchronous process.               *)
(*                                                                         *)
(* Numbers: matrix elements are fixed-point integers whose unit is the     *)
(* camera change threshold (1e-4); plane tests are done on exact           *)
(* rationals (a normalised plane keeps its length as the denominator).     *)
(***************************************************************************)
EXTENDS Integers, Sequences, FiniteSets, TLC

\* ------------------------------------------------------------------------
\* Program constants

MAX_FRAMES_IN_FLIGHT == 2

\* 0.0001f, the unit of the fixed-point matrix elements
CAMERA_CHANGE_THRESHOLD == 1

\* std::min(instanceCount, 500u)
MAX_TRANSPARENT == 500

\* for (int i = 0; i < 5; ++i) over frustum.planes
TESTED_PLANES == 5

\* Material::alphaMode: 0 - opaque, 1 - BLEND, 2 - MASK
ALPHA_BLEND == 1

\* ------------------------------------------------------------------------
\* Bounds of the model

\* m_swapChain.getImages().size(), decided by the device at run time
ImageCount == 3

\* drawFrame calls of the end-to-end scenario
E2EFrames == 5

Slots == 0 .. (MAX_FRAMES_IN_FLIGHT - 1)

\* ------------------------------------------------------------------------
\* glm vectors and matrices.  A mat4 is column-major: m[c][r] of the code is
\* El(m, c, r) here.

Vec3(x, y, z) == <<x, y, z>>

Dot3(a, b) == a[1] * b[1] + a[2] * b[2] + a[3] * b[3]

Add3(a, b) == <<a[1] + b[1], a[2] + b[2], a[3] + b[3]>>

Sub3(a, b) == <<a[1] - b[1], a[2] - b[2], a[3] - b[3]>>

El(m, c, r) == m[c + 1][r + 1]

\* glm::mat4(0.0f)
ZeroMat4 == << <<0, 0, 0, 0>>, <<0, 0, 0, 0>>, <<0, 0, 0, 0>>, <<0, 0, 0, 0>> >>

\* vec3(m * vec4(p, 1.0f))
TransformPoint(m, p) ==
    << El(m, 0, 0) * p[1] + El(m, 1, 0) * p[2] + El(m, 2, 0) * p[3] + El(m, 3, 0),
       El(m, 0, 1) * p[1] + El(m, 1, 1) * p[2] + El(m, 2, 1) * p[3] + El(m, 3, 1),
       El(m, 0, 2) * p[1] + El(m, 1, 2) * p[2] + El(m, 2, 2) * p[3] + El(m, 3, 2) >>

\* vec3(m[c])
Column3(m, c) == << El(m, c, 0), El(m, c, 1), El(m, c, 2) >>

Abs(x) == IF x < 0 THEN -x ELSE x

Max2(a, b) == IF a >= b THEN a ELSE b

Min2_First(a, b) == a

Min2(a, b) == IF a <= b THEN a ELSE b

\* std::sqrt / glm::length on the perfect squares the inputs are chosen from
ISqrt(n) == CHOOSE r \in 0 .. n : r * r = n

\* translation by t after a uniform scale s
TRS(t, s) == << <<s, 0, 0, 0>>, <<0, s, 0, 0>>, <<0, 0, s, 0>>, <<t[1], t[2], t[3], 1>> >>

\* ------------------------------------------------------------------------
\* Frustum (FrustumCulling.hpp).  A plane is [normal, distance, length]: the
\* normalised plane of the code is (normal / length, distance / length).

PlaneOf(viewProj, col, sign) ==
    LET n == Vec3(El(viewProj, 0, 3) + sign * El(viewProj, 0, col),
                  El(viewProj, 1, 3) + sign * El(viewProj, 1, col),
                  El(viewProj, 2, 3) + sign * El(viewProj, 2, col))
    IN  [normal   |-> n,
         distance |-> El(viewProj, 3, 3) + sign * El(viewProj, 3, col),
         length   |-> ISqrt(Dot3(n, n))]

\* Left, Right, Bottom, Top, Near, Far
fromViewProjection(viewProj) ==
    << PlaneOf(viewProj, 0, 1), PlaneOf(viewProj, 0, -1),
       PlaneOf(viewProj, 1, 1), PlaneOf(viewProj, 1, -1),
       PlaneOf(viewProj, 2, 1), PlaneOf(viewProj, 2, -1) >>

\* ------------------------------------------------------------------------
\* Cameras.  CameraParameters::getViewProjection is perspective * lookAt;
\* the poses the camera takes are drawn from this table of results.

\* looking down -z from the origin: |x|,|y| <= 4/3 * -z, near z = -2, far z = -18
VP_A == << <<3, 0, 0, 0>>, <<0, -3, 0, 0>>, <<0, 0, -5, -4>>, <<0, 0, -18, 0>> >>

\* VP_A moved by one threshold unit in one element (not a change for the cache)
VP_A1 == << <<3, 0, 0, 0>>, <<0, -3, 0, 0>>, <<0, 0, -5, -4>>, <<1, 0, -18, 0>> >>

\* the same camera moved by 20 along +x
VP_B == << <<3, 0, 0, 0>>, <<0, -3, 0, 0>>, <<0, 0, -5, -4>>, <<-60, 0, -18, 0>> >>

CameraPoses == {"A", "A1", "B"}

getViewProjection(camera) ==
    CASE camera = "A"  -> VP_A
      [] camera = "A1" -> VP_A1
      [] camera = "B"  -> VP_B

getFrustum(camera) == fromViewProjection(getViewProjection(camera))

\* ------------------------------------------------------------------------
\* Scenes handed over by the loader.  Indices are 0-based as in the code:
\* element i of a std::vector is seq[i + 1].

At(seq, i) == seq[i + 1]

Mesh(bbMin, bbMax, baseVertex, baseIndex, indexCount, materialIndex) ==
    [boundingBoxMin |-> bbMin, boundingBoxMax |-> bbMax, baseVertex |-> baseVertex,
     baseIndex |-> baseIndex, indexCount |-> indexCount, materialIndex |-> materialIndex]

Instance(transform, meshIndex, animated) ==
    [transform |-> transform, meshIndex |-> meshIndex, animated |-> animated]

\* opaque, blend, mask
Materials == << [alphaMode |-> 0], [alphaMode |-> 1], [alphaMode |-> 2] >>

\* mesh 0 opaque, mesh 1 blend, mesh 2 mask, mesh 3 with a material index out of range
Meshes ==
    << Mesh(Vec3(-1, 0, 0), Vec3(1, 0, 0), 0, 0, 3, 0),
       Mesh(Vec3(-1, 0, 0), Vec3(1, 0, 0), 3, 3, 6, 1),
       Mesh(Vec3(-1, 0, 0), Vec3(1, 0, 0), 7, 9, 9, 2),
       Mesh(Vec3(-1, 0, 0), Vec3(1, 0, 0), 12, 18, 3, 7) >>

\* inside the frustum of A and A1, left of the frustum of B
PosMid == Vec3(0, 0, -10)

\* inside the frustum of A, A1 and B
PosRight == Vec3(10, 0, -10)

\* between the camera and the near plane of A
PosNear == Vec3(0, 0, 0)

\* beyond the far plane of A
PosFar == Vec3(0, 0, -30)

\* the positions the animator moves an animated instance between
AnimatedPositions == {PosMid, PosRight}

\* 2 opaque and 1 transparent instance, all inside the frustum of A, none animated
SceneStatic ==
    [meshes |-> SubSeq(Meshes, 1, 3), materials |-> Materials,
     instances |-> << Instance(TRS(PosMid, 1), 0, 0),
                      Instance(TRS(PosRight, 1), 1, 0),
                      Instance(TRS(PosRight, 2), 2, 0) >>,
     pointLights |-> << >>, spotLights |-> << >>]

\* one animated opaque instance, one static transparent one, animated lights
SceneAnimated ==
    [meshes |-> SubSeq(Meshes, 1, 3), materials |-> Materials,
     instances |-> << Instance(TRS(PosMid, 1), 0, 1),
                      Instance(TRS(PosMid, 1), 1, 0) >>,
     pointLights |-> << [animated |-> 1] >>, spotLights |-> << [animated |-> 0] >>]

\* a sparse scene: a material index out of range, instances outside near/far,
\* a mesh index out of range, and one instance with nothing special
SceneSparse ==
    [meshes |-> Meshes, materials |-> Materials,
     instances |-> << Instance(TRS(PosRight, 1), 3, 0),
                      Instance(TRS(PosNear, 1), 0, 0),
                      Instance(TRS(PosFar, 1), 1, 0),
                      Instance(TRS(PosRight, 1), 5, 0),
                      Instance(TRS(PosRight, 1), 0, 0) >>,
     pointLights |-> << [animated |-> 0] >>, spotLights |-> << >>]

LoadedScenes == {SceneStatic, SceneAnimated, SceneSparse}

\* how many transparent instances a crowded scene has beyond MAX_TRANSPARENT
CapExcess == 1

\* a crowded scene: an opaque instance, nBlend transparent ones, an opaque one
CrowdedScene(nBlend) ==
    [meshes |-> SubSeq(Meshes, 1, 3), materials |-> Materials,
     instances |-> [i \in 1 .. (nBlend + 2) |->
                       IF i = 1 THEN Instance(TRS(PosMid, 1), 0, 0)
                       ELSE IF i = nBlend + 2 THEN Instance(TRS(PosRight, 1), 0, 0)
                       ELSE Instance(TRS(PosRight, 1), 1, 0)],
     pointLights |-> << >>, spotLights |-> << >>]

CrowdedScenes == {CrowdedScene(MAX_TRANSPARENT - 1), CrowdedScene(MAX_TRANSPARENT + CapExcess)}

\* ------------------------------------------------------------------------
\* Draw command generator: ResourceManager::updateIndirectDrawBuffers

DrawIndexedIndirectCommand(indexCount, instanceCount, firstIndex, vertexOffset, firstInstance) ==
    [indexCount |-> indexCount, instanceCount |-> instanceCount, firstIndex |-> firstIndex,
     vertexOffset |-> vertexOffset, firstInstance |-> firstInstance]

\* the content of mapped memory that was never written
Unwritten == DrawIndexedIndirectCommand(-1, -1, -1, -1, -1)

\* bufferPtr[pos] = cmd
WriteAt(buf, pos, cmd) == [buf EXCEPT ![pos + 1] = cmd]

\* std::memcpy(bufferPtr + pos, src.data(), count * sizeof(cmd)), element k onwards
Memcpy(buf, pos, src, k) ==
    [p \in 1 .. Len(buf) |->
        IF p - 1 - pos >= k /\ p - 1 - pos < Len(src) THEN At(src, p - 1 - pos) ELSE buf[p]]

\* twice the world-space radius of the bounding sphere (localRadius has the factor 0.5)
WorldRadius2(mesh, instance) ==
    LET boxExtents == Sub3(mesh.boundingBoxMax, mesh.boundingBoxMin)
        col0 == Column3(instance.transform, 0)
        col1 == Column3(instance.transform, 1)
        col2 == Column3(instance.transform, 2)
        maxScaleSq == Max2(Dot3(col0, col0), Max2(Dot3(col1, col1), Dot3(col2, col2)))
    IN  ISqrt(Dot3(boxExtents, boxExtents)) * ISqrt(maxScaleSq)

WorldCenter(mesh, instance) ==
    LET sum == Add3(mesh.boundingBoxMin, mesh.boundingBoxMax)
        localCenter == Vec3(sum[1] \div 2, sum[2] \div 2, sum[3] \div 2)
    IN  TransformPoint(instance.transform, localCenter)

\* twice the numerator of dot(plane.normal, center) + plane.distance
PlaneDistance2(plane, worldCenter) ==
    2 * (Dot3(plane.normal, worldCenter) + plane.distance)

PlaneRejects_SignFlipped(plane, worldCenter, worldRadius2) ==
    PlaneDistance2(plane, worldCenter) > worldRadius2 * plane.length

\* dist < -worldRadius
PlaneRejects(plane, worldCenter, worldRadius2) ==
    PlaneDistance2(plane, worldCenter) < -(worldRadius2 * plane.length)

SphereVisible_AllPlanes(planes, worldCenter, worldRadius2) ==
    \A i \in 0 .. 5 : ~PlaneRejects(At(planes, i), worldCenter, worldRadius2)

\* the loop over planes[0 .. 4]
SphereVisible(planes, worldCenter, worldRadius2) ==
    \A i \in 0 .. (TESTED_PLANES - 1) : ~PlaneRejects(At(planes, i), worldCenter, worldRadius2)

MeshIndexValid(scene, meshIdx) == ~(meshIdx < 0 \/ meshIdx >= Len(scene.meshes))

MaterialIndexValid(scene, matIdx) == ~(matIdx < 0 \/ matIdx >= Len(scene.materials))

IsTransparent_Mask(material) == material.alphaMode = 2

\* materials[matIdx].alphaMode == 1
IsTransparent(material) == material.alphaMode = ALPHA_BLEND

\* one iteration of the rebuild loop: the validity checks, the culling test,
\* and the command put in the opaque range or kept for the transparent one
RebuildInstance(scene, planes, maxTransparent, instanceIdx, acc) ==
    LET instance == At(scene.instances, instanceIdx)
        meshIdx == instance.meshIndex
    IN
    IF ~MeshIndexValid(scene, meshIdx) THEN acc
    ELSE
      LET mesh == At(scene.meshes, meshIdx)
          matIdx == mesh.materialIndex
      IN
      IF ~MaterialIndexValid(scene, matIdx) THEN acc
      ELSE IF ~SphereVisible(planes, WorldCenter(mesh, instance), WorldRadius2(mesh, instance))
      THEN acc
      ELSE
        LET cmd == DrawIndexedIndirectCommand(mesh.indexCount, 1, mesh.baseIndex,
                                              mesh.baseVertex, instanceIdx)
        IN
        IF IsTransparent(At(scene.materials, matIdx))
        THEN IF acc.transparentCount < maxTransparent
             THEN [acc EXCEPT !.tempTransparent = Append(@, cmd),
                              !.transparentCount = @ + 1]
             ELSE acc
        ELSE [acc EXCEPT !.buf = WriteAt(@, acc.opaqueCount, cmd),
                         !.opaqueCount = @ + 1]

RECURSIVE RebuildLoop(_, _, _, _, _, _)
RECURSIVE RebuildRest(_, _, _, _, _, _)
\* for (instanceIdx = first; instanceIdx < last; instanceIdx++) of a rebuild:
\* the iterations of the first half in order, then those of the second half
RebuildLoop(scene, planes, maxTransparent, first, last, acc) ==
    IF first >= last THEN acc
    ELSE IF last = first + 1
    THEN RebuildInstance(scene, planes, maxTransparent, first, acc)
    ELSE RebuildRest(scene, planes, maxTransparent, (first + last) \div 2, last,
                     RebuildLoop(scene, planes, maxTransparent,
                                 first, (first + last) \div 2, acc))

\* the iterations from first on, started from what the earlier ones left
\* (the counts are never negative: the test only fixes the order of evaluation)
RebuildRest(scene, planes, maxTransparent, first, last, acc) ==
    IF acc.opaqueCount + acc.transparentCount >= 0
    THEN RebuildLoop(scene, planes, maxTransparent, first, last, acc)
    ELSE acc

\* after the loop: the copy of the transparent commands after the opaque ones,
\* and the three counts
FinishRebuild(ind, frameIdx, acc) ==
    [ind EXCEPT !.m_indirectDrawBuffers[frameIdx + 1] =
                    IF acc.transparentCount > 0
                    THEN Memcpy(acc.buf, acc.opaqueCount, acc.tempTransparent, 0)
                    ELSE acc.buf,
                !.m_opaqueDrawCount = acc.opaqueCount,
                !.m_transparentDrawCount = acc.transparentCount,
                !.m_indirectDrawCount = acc.opaqueCount + acc.transparentCount]

\* the body shared by the two rebuild branches
Rebuild(ind, scene, frameIdx) ==
    FinishRebuild(ind, frameIdx,
        RebuildLoop(scene, getFrustum(scene.camera),
                    Min2(Len(scene.instances), MAX_TRANSPARENT), 0, Len(scene.instances),
                    [buf |-> At(ind.m_indirectDrawBuffers, frameIdx),
                     opaqueCount |-> 0, transparentCount |-> 0,
                     tempTransparent |-> << >>]))

\* std::abs(currentViewProj[i][j] - cached[i][j]) > CAMERA_CHANGE_THRESHOLD for some i, j
ViewProjDiffers(currentViewProj, cached) ==
    \E i \in 0 .. 3, j \in 0 .. 3 :
        Abs(El(currentViewProj, i, j) - El(cached, i, j)) > CAMERA_CHANGE_THRESHOLD

CameraChanged_Always(ind, currentViewProj, frameIdx) == TRUE

\* !m_indirectDrawBuffersInitialized[frameIdx], or an element moved by more than the threshold
CameraChanged(ind, currentViewProj, frameIdx) ==
    \/ ~At(ind.m_indirectDrawBuffersInitialized, frameIdx)
    \/ ViewProjDiffers(currentViewProj, At(ind.m_cachedCameraViewProj, frameIdx))

HasAnimated_Always(scene) == TRUE

HasAnimated(scene) ==
    \E instanceIdx \in 0 .. (Len(scene.instances) - 1) :
        At(scene.instances, instanceIdx).animated # 0

\* the two branches past the early return; rebuiltInd is what a rebuild leaves
RefreshBranches(ind, currentViewProj, frameIdx, anyAnimated, rebuiltInd) ==
    IF CameraChanged(ind, currentViewProj, frameIdx)
    THEN [ind |-> [rebuiltInd EXCEPT
                      !.m_cachedCameraViewProj[frameIdx + 1] = currentViewProj,
                      !.m_indirectDrawBuffersInitialized[frameIdx + 1] = TRUE],
          rebuilt |-> TRUE, written |-> rebuiltInd.m_indirectDrawCount]
    ELSE IF anyAnimated
    THEN [ind |-> rebuiltInd, rebuilt |-> TRUE, written |-> rebuiltInd.m_indirectDrawCount]
    ELSE [ind |-> ind, rebuilt |-> FALSE, written |-> 0]

\* The result: the new indirect-draw state, whether a rebuild ran, and the
\* number of commands it wrote into the slot's mapped buffer.
updateIndirectDrawBuffers(ind, scene, frameIdx) ==
    IF ind.m_indirectDrawBuffers = << >> \/ ind.m_indirectDrawCount = 0
    THEN [ind |-> ind, rebuilt |-> FALSE, written |-> 0]
    ELSE RefreshBranches(ind, getViewProjection(scene.camera), frameIdx, HasAnimated(scene),
                         Rebuild(ind, scene, frameIdx))

\* The indirect-draw members as the ResourceManager constructor leaves them
IndirectConstructed ==
    [m_indirectDrawBuffers |-> << >>,
     m_indirectDrawCount |-> 0, m_opaqueDrawCount |-> 0, m_transparentDrawCount |-> 0,
     m_cachedCameraViewProj |-> [s \in 1 .. MAX_FRAMES_IN_FLIGHT |-> ZeroMat4],
     m_indirectDrawBuffersInitialized |-> [s \in 1 .. MAX_FRAMES_IN_FLIGHT |-> FALSE]]

\* the counts a rebuild wrote: opaque commands first, transparent ones after them
RebuildCounts(indirect) ==
    [opaque |-> indirect.m_opaqueDrawCount, transparent |-> indirect.m_transparentDrawCount]

RECURSIVE RefreshAllSlots(_, _, _, _)
RECURSIVE RefreshNextSlot(_, _, _, _)
\* for (frameIdx = 0; frameIdx < MAX_FRAMES_IN_FLIGHT; frameIdx++) updateIndirectDrawBuffers;
\* log keeps, per slot, whether the call rebuilt and how many commands it wrote
RefreshAllSlots(indirect, sc, frameIdx, log) ==
    IF frameIdx >= MAX_FRAMES_IN_FLIGHT THEN [ind |-> indirect, log |-> log]
    ELSE RefreshNextSlot(sc, frameIdx, log, updateIndirectDrawBuffers(indirect, sc, frameIdx))

\* frameIdx++ after the refresh of slot frameIdx returned r
RefreshNextSlot(sc, frameIdx, log, r) ==
    RefreshAllSlots(r.ind, sc, frameIdx + 1,
                    Append(log, [rebuilt |-> r.rebuilt, written |-> r.written,
                                 counts |-> RebuildCounts(r.ind)]))

\* one command per instance in every slot's buffer, then a refresh of every slot
createIndirectDrawBuffers(indirect, sc) ==
    RefreshAllSlots(
        [indirect EXCEPT !.m_indirectDrawCount = Len(sc.instances),
                         !.m_indirectDrawBuffers =
                             [s \in 1 .. MAX_FRAMES_IN_FLIGHT |->
                                 [k \in 1 .. Len(sc.instances) |-> Unwritten]]],
        sc, 0, << >>)

\* ------------------------------------------------------------------------
\* Instance, light and TLAS instance buffers

\* the rows of vk::TransformMatrixKHR built from a column-major mat4
TransformMatrixKHR(t) ==
    << <<El(t, 0, 0), El(t, 1, 0), El(t, 2, 0), El(t, 3, 0)>>,
       <<El(t, 0, 1), El(t, 1, 1), El(t, 2, 1), El(t, 3, 1)>>,
       <<El(t, 0, 2), El(t, 1, 2), El(t, 2, 2), El(t, 3, 2)>> >>

\* the entries a non-initial pass over a flagged array writes
AnimatedIndices(records) == {i \in 1 .. Len(records) : records[i].animated # 0}

updateInstanceBuffers_AlwaysFull(buf, done, scene) ==
    [buf |-> scene.instances, done |-> TRUE, written |-> Len(scene.instances)]

\* ResourceManager::updateInstanceBuffers: [buf, done, written]
updateInstanceBuffers(buf, done, scene) ==
    IF scene.instances = << >> THEN [buf |-> buf, done |-> done, written |-> 0]
    ELSE IF ~done
    THEN [buf |-> scene.instances, done |-> TRUE, written |-> Len(scene.instances)]
    ELSE [buf |-> [i \in 1 .. Len(buf) |->
                     IF scene.instances[i].animated # 0 THEN scene.instances[i] ELSE buf[i]],
          done |-> done,
          written |-> Cardinality(AnimatedIndices(scene.instances))]

\* the number of elements ResourceManager::updateLightBuffers writes from one light array
LightWrites(lights, done) ==
    IF ~done THEN Len(lights) ELSE Cardinality(AnimatedIndices(lights))

SkipsInstance_Never(instance, initialBuild) == FALSE

\* instance.animated == 0 && !initialBuild
SkipsInstance(instance, initialBuild) == instance.animated = 0 /\ ~initialBuild

\* the instances whose transform ResourceManager::recordTLASUpdate writes
TLASUpdated(scene, initialBuild) ==
    {i \in 1 .. Len(scene.instances) : ~SkipsInstance(scene.instances[i], initialBuild)}

\* a GPU resource: its name and its frame-in-flight slot, -1 when there is one for all
Res(name, slot) == <<name, slot>>

\* a recorded command: the resources it writes, its arguments, its access masks
Cmd(op, writes, arg) ==
    [op |-> op, writes |-> writes, arg |-> arg, srcAccessMask |-> {}, dstAccessMask |-> {}]

\* cmd.pipelineBarrier with one vk::MemoryBarrier
MemoryBarrier(name, srcAccessMask, dstAccessMask) ==
    [op |-> "pipelineBarrier", writes |-> {}, arg |-> <<name>>,
     srcAccessMask |-> srcAccessMask, dstAccessMask |-> dstAccessMask]

TLASScratchBuffer_Shared(frameIdx) == 0

\* m_tlasScratchBuffers[frameIdx]
TLASScratchBuffer(frameIdx) == frameIdx

\* m_blasInstancesBuffers[frameIdx]
TLASInstancesBuffer(frameIdx) == frameIdx

\* preBarrier, the eUpdate build of the slot's TLAS onto itself (mode, source,
\* destination, scratch buffer, instance buffer), postBarrier
TLASCommands(frameIdx) ==
    << MemoryBarrier("preBarrier",
                     {"eAccelerationStructureWriteKHR", "eTransferWrite", "eShaderRead"},
                     {"eAccelerationStructureReadKHR", "eAccelerationStructureWriteKHR"}),
       Cmd("buildAccelerationStructuresKHR",
           {Res("tlas", frameIdx), Res("tlasScratch", TLASScratchBuffer(frameIdx))},
           <<"eUpdate", frameIdx, frameIdx,
             TLASScratchBuffer(frameIdx), TLASInstancesBuffer(frameIdx)>>),
       MemoryBarrier("postBarrier",
                     {"eAccelerationStructureWriteKHR"},
                     {"eAccelerationStructureReadKHR", "eShaderRead"}) >>

\* ResourceManager::recordTLASUpdate: the slot's mapped instance buffer, the
\* CPU-side copy, the commands appended to the stream, the number of writes
recordTLASUpdate(mapped, blasInstances, scene, initialBuild, frameIdx) ==
    LET upd == TLASUpdated(scene, initialBuild)
        tr(old) == [i \in 1 .. Len(old) |->
                      IF i \in upd THEN TransformMatrixKHR(scene.instances[i].transform)
                      ELSE old[i]]
        updatedCount == Cardinality(upd)
    IN  [mapped |-> tr(mapped),
         blasInstances |-> tr(blasInstances),
         written |-> updatedCount,
         cmds |-> IF updatedCount = 0 /\ ~initialBuild THEN << >>
                  ELSE TLASCommands(frameIdx)]

\* ------------------------------------------------------------------------
\* RayQueryPipeline::recordCommandBuffer (TAA_ENABLED, so no MSAA images)

\* m_depthImage, m_depthImageView: one image for all slots
DepthAttachment(frame) == Res("depthImage", -1)

\* m_colorImage: one image for all slots
ColorImage(frame) == Res("colorImage", -1)

DrawCommands(opaqueDrawCount, transparentDrawCount, transparentOffset, frame) ==
    IF opaqueDrawCount = 0 /\ transparentDrawCount = 0 THEN << >>
    ELSE (IF opaqueDrawCount > 0
          THEN << Cmd("drawIndexedIndirect", {}, <<"opaque", frame, 0, opaqueDrawCount>>) >>
          ELSE << >>)
         \o
         (IF transparentDrawCount > 0
          THEN << Cmd("drawIndexedIndirect", {},
                      <<"transparent", frame, transparentOffset, transparentDrawCount>>) >>
          ELSE << >>)

\* the commands recorded after recordTLASUpdate; the transparent offset is in commands
RasterCommands(indirect, frame, image) ==
    << Cmd("transitionImageLayout", {ColorImage(frame)}, <<"eColorAttachmentOptimal">>),
       Cmd("transitionImageLayout", {DepthAttachment(frame)}, <<"eDepthAttachmentOptimal">>),
       Cmd("transitionImageLayout", {Res("velocityImage", frame)}, <<"eColorAttachmentOptimal">>),
       Cmd("beginRendering",
           {Res("resolveImage", frame), Res("velocityImage", frame), DepthAttachment(frame)},
           <<"clear">>) >>
    \o DrawCommands(indirect.m_opaqueDrawCount, indirect.m_transparentDrawCount,
                    indirect.m_opaqueDrawCount, frame)
    \o
    << Cmd("endRendering", {}, <<"end">>),
       Cmd("transitionImageLayout", {Res("resolveImage", frame)}, <<"eShaderReadOnlyOptimal">>),
       Cmd("transitionImageLayout", {Res("velocityImage", frame)}, <<"eShaderReadOnlyOptimal">>),
       Cmd("transitionImageLayout", {Res("swapChainImage", image)}, <<"eColorAttachmentOptimal">>),
       Cmd("postProcessing", {Res("swapChainImage", image)}, <<"frame", frame>>),
       Cmd("transitionImageLayout", {Res("swapChainImage", image)}, <<"ePresentSrcKHR">>) >>

recordCommandBuffer_TLASLast(tlasCmds, indirect, frame, image) ==
    RasterCommands(indirect, frame, image) \o tlasCmds

\* cmd.begin; recordTLASUpdate(cmd, scene, false, m_currentFrame); the raster pass; cmd.end
recordCommandBuffer(tlasCmds, indirect, frame, image) ==
    tlasCmds \o RasterCommands(indirect, frame, image)

\* the resources a command stream writes
StreamWrites(stream) == UNION {stream[k].writes : k \in 1 .. Len(stream)}

\* ------------------------------------------------------------------------
\* CommandManager::immediateSubmit and what allocateSceneResources submits with it

\* m_commandBuffers: one command buffer per slot, allocated from the pool by the
\* constructor and live as long as the CommandManager
PerSlotCommandBuffers == Slots

OneShotCommandBuffer_Reuses(live) == CHOOSE h \in live : TRUE

\* vk::raii::CommandBuffers(device, allocInfo): the pool hands out a command
\* buffer that is not live; it is freed when immediateSubmit returns
OneShotCommandBuffer(live) == CHOOSE h \in 0 .. Cardinality(live) : h \notin live

\* allocate, begin(eOneTimeSubmit), function(cmd), end, submit, waitIdle
immediateSubmit(log, cmds) ==
    Append(log, [commandBuffer |-> OneShotCommandBuffer(PerSlotCommandBuffers),
                 cmds |-> cmds, waitIdle |-> TRUE])

\* BufferManager::createBuffer with data: nothing is copied when data is nullptr
createBuffer(log, name, hasData) ==
    IF hasData
    THEN immediateSubmit(log, << Cmd("copyBuffer", {Res(name, -1)}, <<"stagingBuffer">>) >>)
    ELSE log

\* the eBuild of the bottom-level structure of mesh i from its range of the
\* vertex and the index buffer
BLASBuild(mesh, i) ==
    Cmd("buildAccelerationStructuresKHR", {Res("blas", i)},
        <<"eBuild", "eBottomLevel", i, mesh.baseVertex, mesh.baseIndex, mesh.indexCount \div 3>>)

RECURSIVE createBLAS_Twice(_, _, _)
createBLAS_Twice(log, sc, i) ==
    IF i >= Len(sc.meshes) THEN log
    ELSE createBLAS_Twice(
             immediateSubmit(immediateSubmit(log, << BLASBuild(At(sc.meshes, i), i) >>),
                             << BLASBuild(At(sc.meshes, i), i) >>),
             sc, i + 1)

\* ResourceManager::createBLAS: the loop over scene.meshes from mesh i on
RECURSIVE createBLAS(_, _, _)
createBLAS(log, sc, i) ==
    IF i >= Len(sc.meshes) THEN log
    ELSE createBLAS(immediateSubmit(log, << BLASBuild(At(sc.meshes, i), i) >>), sc, i + 1)

\* ResourceManager::createTLAS: the initial build of the structure of every
\* slot, from slot frameIdx on
RECURSIVE createTLAS(_, _)
createTLAS(log, frameIdx) ==
    IF frameIdx >= MAX_FRAMES_IN_FLIGHT THEN log
    ELSE createTLAS(
             immediateSubmit(log,
                 << Cmd("buildAccelerationStructuresKHR",
                        {Res("tlas", frameIdx), Res("tlasScratch", TLASScratchBuffer(frameIdx))},
                        <<"eBuild", "eTopLevel", frameIdx,
                          TLASScratchBuffer(frameIdx), TLASInstancesBuffer(frameIdx)>>) >>),
             frameIdx + 1)

\* the one-shot submissions of allocateSceneResources, in its order: the
\* vertex, index, mesh-metadata and UV buffer, one structure per mesh, one per
\* slot. A loaded scene has vertices, indices and UVs exactly when it has meshes.
allocateStaticResources(log, sc) ==
    createTLAS(
        createBLAS(
            createBuffer(
                createBuffer(
                    createBuffer(
                        createBuffer(log, "vertexBuffer", Len(sc.meshes) > 0),
                        "indexBuffer", Len(sc.meshes) > 0),
                    "meshesBuffer", Len(sc.meshes) > 0),
                "uvBuffer", Len(sc.meshes) > 0),
            sc, 0),
        0)

\* ------------------------------------------------------------------------
\* PostProcessingStack: temporal anti-aliasing (TAA_ENABLED)

\* the content of an image nothing has been written to
NeverWritten == -1

\* createImages creates one history image per slot and writes nothing to it;
\* m_taaFirstFrame starts true; no descriptor set is written; nothing is sampled
TAAConstructed ==
    [m_taaFirstFrame |-> TRUE,
     historyBinding |-> [s \in Slots |-> "none"],
     m_taaHistoryImages |-> [s \in Slots |-> NeverWritten],
     sampled |-> << >>]

\* taaHistoryInfo.imageView: the resolved image on the first frame, the slot's
\* history image afterwards
HistoryView(t, frameIndex) == IF t.m_taaFirstFrame THEN "resolved" ELSE "history"

\* PostProcessingStack::updateDescriptorSets(resolved, velocity, frameIndex):
\* binding 1 of the slot's TAA descriptor set
updateDescriptorSets(t, frameIndex) ==
    [t EXCEPT !.historyBinding[frameIndex] = HistoryView(t, frameIndex)]

\* PostProcessingStack::recordCommandBuffer: the TAA pass of frame frameNo
\* samples what binding 1 names, its output is copied to the slot's history
\* image at the end of the stream, and m_taaFirstFrame is cleared
recordTAA(t, frameIndex, frameNo) ==
    [t EXCEPT !.sampled = IF t.historyBinding[frameIndex] = "resolved"
                          THEN <<"resolved", frameNo>>
                          ELSE <<"history", t.m_taaHistoryImages[frameIndex]>>,
              !.m_taaHistoryImages[frameIndex] = frameNo,
              !.m_taaFirstFrame = FALSE]

\* ------------------------------------------------------------------------
\* State

VARIABLES
    pc,                    \* where the CPU thread is: allocation, the frame loop, a step of drawFrame
    scene,                 \* the loaded Scene, camera included; the animator mutates it
    m_currentFrame,        \* RayQueryPipeline: frame-in-flight slot of the next frame
    m_semaphoreIndex,      \* RayQueryPipeline: acquire semaphore of the next frame
    imageIndex,            \* drawFrame's local: the acquired swapchain image
    waitedFence,           \* the fence this drawFrame call's wait returned on, -1 outside a call
    m_inFlightFences,      \* per slot: TRUE when signaled
    gpuQueue,              \* frames submitted and not finished, in submission order
    commandBuffers,        \* per slot: the commands recorded last
    ind,                   \* ResourceManager: the indirect-draw members
    m_instanceBuffersMapped,       \* per slot: the mapped instance buffer
    initialCopyDone,               \* updateInstanceBuffers' static flags
    lightsInitialCopyDone,         \* updateLightBuffers' static flags
    m_blasInstances,               \* CPU-side TLAS instance transforms
    m_blasInstancesBuffersMapped,  \* per slot: the mapped TLAS instance buffer
    lastWrites,            \* the writes to per-slot buffers made by the last CPU step
    sync,                  \* the semaphores and the fence this drawFrame call handed to Vulkan
    taa,                   \* PostProcessingStack: the temporal anti-aliasing members
    immediateSubmits,      \* CommandManager::immediateSubmit: the one-shot submissions made so far
    history                \* frames started, rebuilds per frame, camera moves (end-to-end
                           \* scenario); per slot, the counts its last rebuild wrote

vars == << pc, scene, m_currentFrame, m_semaphoreIndex, imageIndex, waitedFence,
           m_inFlightFences, gpuQueue, commandBuffers, ind, m_instanceBuffersMapped,
           initialCopyDone, lightsInitialCopyDone, m_blasInstances,
           m_blasInstancesBuffersMapped, lastWrites, sync, taa, immediateSubmits, history >>

SlotPending(slot) == \E k \in 1 .. Len(gpuQueue) : gpuQueue[k].slot = slot

\* A write of n elements to a per-slot buffer, with the slot's state when it is made
Write(buf, slot, n) ==
    [buf |-> buf, slot |-> slot, n |-> n,
     fenceSignaled |-> m_inFlightFences[slot],
     pending |-> SlotPending(slot),
     afterWait |-> waitedFence = slot,
     inDrawFrame |-> pc \notin {"alloc", "idle"}]

\* the records of a set of candidate writes that write something
Written(ws) == {w \in ws : w.n > 0}

\* no call to acquireNextImage, submit or presentKHR made yet in this drawFrame
\* call, and nothing written to a log by it
NoSync ==
    [acquireSemaphore |-> -1, waitSemaphore |-> -1, waitStage |-> "none",
     signalSemaphore |-> -1, fence |-> -1, presentWaitSemaphore |-> -1, presentImage |-> -1,
     presentationResult |-> "none", logged |-> 0]

NoHistory ==
    [frameNo |-> 0, rebuilds |-> << >>, movedAt |-> 0,
     lastRebuild |-> [s \in Slots |-> [opaque |-> 0, transparent |-> 0]]]

\* Construction: createSyncObjects creates every fence signaled; the
\* ResourceManager constructor zeroes the camera cache; no scene resource exists.
InitWith(scenes, cameras) ==
    /\ pc = "alloc"
    /\ \E sc \in scenes, cam \in cameras :
           scene = [meshes |-> sc.meshes, materials |-> sc.materials,
                    instances |-> sc.instances, pointLights |-> sc.pointLights,
                    spotLights |-> sc.spotLights, camera |-> cam]
    /\ m_currentFrame = 0
    /\ m_semaphoreIndex = 0
    /\ imageIndex = 0
    /\ waitedFence = -1
    /\ m_inFlightFences = [s \in Slots |-> TRUE]
    /\ gpuQueue = << >>
    /\ commandBuffers = [s \in Slots |-> << >>]
    /\ ind = IndirectConstructed
    /\ m_instanceBuffersMapped = [s \in Slots |-> << >>]
    /\ initialCopyDone = [s \in Slots |-> FALSE]
    /\ lightsInitialCopyDone = [s \in Slots |-> FALSE]
    /\ m_blasInstances = << >>
    /\ m_blasInstancesBuffersMapped = [s \in Slots |-> << >>]
    /\ sync = NoSync
    /\ immediateSubmits = << >>
    /\ taa = TAAConstructed
    /\ lastWrites = {}
    /\ history = NoHistory

Init == InitWith(LoadedScenes, CameraPoses)

\* ------------------------------------------------------------------------
\* ResourceManager::allocateSceneResources, called once before the frame loop

\* created is what createIndirectDrawBuffers returns
AllocateWith(created) ==
    /\ pc = "alloc"
    /\ ind' = created.ind
    /\ m_instanceBuffersMapped' = [s \in Slots |-> scene.instances]
    /\ lightsInitialCopyDone' = [s \in Slots |-> TRUE]
    /\ m_blasInstances' = [i \in 1 .. Len(scene.instances) |->
                              TransformMatrixKHR(scene.instances[i].transform)]
    /\ m_blasInstancesBuffersMapped' =
           [s \in Slots |-> [i \in 1 .. Len(scene.instances) |->
                                TransformMatrixKHR(scene.instances[i].transform)]]
    /\ lastWrites' =
           Written(UNION {{Write("instance", s, Len(scene.instances)),
                           Write("pointLight", s, Len(scene.pointLights)),
                           Write("spotLight", s, Len(scene.spotLights)),
                           Write("tlasInstance", s, Len(scene.instances))} : s \in Slots})
           \cup {Write("indirect", s, At(created.log, s).written) :
                    s \in {t \in Slots : At(created.log, t).rebuilt}}
    /\ history' = [history EXCEPT
           !.rebuilds =
               [k \in 1 .. Cardinality({t \in Slots : At(created.log, t).rebuilt}) |-> 0],
           !.lastRebuild =
               [s \in Slots |-> IF At(created.log, s).rebuilt THEN At(created.log, s).counts
                                ELSE @[s]]]
    /\ immediateSubmits' = allocateStaticResources(immediateSubmits, scene)
    /\ pc' = "idle"
    /\ UNCHANGED << taa, sync, scene, m_currentFrame, m_semaphoreIndex, imageIndex, waitedFence,
                    m_inFlightFences, gpuQueue, commandBuffers, initialCopyDone >>

AllocateSceneResources == AllocateWith(createIndirectDrawBuffers(ind, scene))

\* createBLAS reads scene.materials[mesh.materialIndex] for every mesh whose
\* material index is not -1, without a range check
createBLAS_OutOfRange(sc) ==
    \E i \in 1 .. Len(sc.meshes) :
        /\ sc.meshes[i].materialIndex # -1
        /\ (sc.meshes[i].materialIndex < 0 \/ sc.meshes[i].materialIndex >= Len(sc.materials))

\* createBLASInstances reads m_blasHandles[instance.meshIndex] without a range check
createBLASInstances_OutOfRange(sc) ==
    \E i \in 1 .. Len(sc.instances) :
        sc.instances[i].meshIndex < 0 \/ sc.instances[i].meshIndex >= Len(sc.meshes)

\* An out-of-range read of a std::vector is undefined: the process may stop
\* there, or read whatever lies behind the vector and go on (AllocateSceneResources).
AllocationFails ==
    /\ pc = "alloc"
    /\ createBLAS_OutOfRange(scene) \/ createBLASInstances_OutOfRange(scene)
    /\ pc' = "crashed"
    /\ UNCHANGED << taa, immediateSubmits, scene, m_currentFrame, m_semaphoreIndex, imageIndex, waitedFence,
                    m_inFlightFences, gpuQueue, commandBuffers, ind, m_instanceBuffersMapped,
                    initialCopyDone, lightsInitialCopyDone, m_blasInstances,
                    m_blasInstancesBuffersMapped, lastWrites, sync, history >>

\* ------------------------------------------------------------------------
\* Application::run: the animator (or the free camera) changes the scene
\* between two drawFrame calls

AnimatedTransforms == {TRS(p, 1) : p \in AnimatedPositions}

\* the instance arrays the animator can leave behind: only flagged instances move
AnimatedInstances(instances) ==
    {moved \in [1 .. Len(instances) -> {instances[i].transform : i \in 1 .. Len(instances)}
                                        \cup AnimatedTransforms] :
        \A i \in 1 .. Len(instances) :
            IF instances[i].animated # 0 THEN moved[i] \in AnimatedTransforms
            ELSE moved[i] = instances[i].transform}

Animate ==
    /\ pc = "idle"
    /\ \E cam \in CameraPoses, moved \in AnimatedInstances(scene.instances) :
           scene' = [scene EXCEPT !.camera = cam,
                                  !.instances = [i \in 1 .. Len(scene.instances) |->
                                      [scene.instances[i] EXCEPT !.transform = moved[i]]]]
    /\ UNCHANGED << taa, immediateSubmits, sync, pc, m_currentFrame, m_semaphoreIndex, imageIndex, waitedFence,
                    m_inFlightFences, gpuQueue, commandBuffers, ind, m_instanceBuffersMapped,
                    initialCopyDone, lightsInitialCopyDone, m_blasInstances,
                    m_blasInstancesBuffersMapped, lastWrites, history >>

\* ------------------------------------------------------------------------
\* RayQueryPipeline::drawFrame, one action per step between two points where
\* the GPU can be observed to have advanced

FenceToWait_Other(frame) == (frame + 1) % MAX_FRAMES_IN_FLIGHT

\* *m_inFlightFences[m_currentFrame]
FenceToWait(frame) == frame

waitForFences_NoWait(fence) == TRUE

\* the wait loop returns once the fence is signaled
waitForFences(fence) == m_inFlightFences[fence]

WaitFence(track) ==
    /\ pc = "idle"
    /\ waitForFences(FenceToWait(m_currentFrame))
    /\ waitedFence' = FenceToWait(m_currentFrame)
    /\ history' = IF track THEN [history EXCEPT !.frameNo = @ + 1] ELSE history
    /\ lastWrites' = {}
    /\ sync' = NoSync
    /\ pc' = "acquire"
    /\ UNCHANGED << taa, immediateSubmits, scene, m_currentFrame, m_semaphoreIndex, imageIndex, m_inFlightFences,
                    gpuQueue, commandBuffers, ind, m_instanceBuffersMapped, initialCopyDone,
                    lightsInitialCopyDone, m_blasInstances, m_blasInstancesBuffersMapped >>

\* the images the presentation engine can hand out: not those still being rendered
AvailableImages == (0 .. (ImageCount - 1)) \ {gpuQueue[k].image : k \in 1 .. Len(gpuQueue)}

\* m_presentationCompleteSemaphores[m_semaphoreIndex], handed to acquireNextImage
AcquireSemaphore == m_semaphoreIndex

Abandon_ResetsFence ==
    /\ pc' = "idle"
    /\ waitedFence' = -1
    /\ m_inFlightFences' = [m_inFlightFences EXCEPT ![m_currentFrame] = FALSE]
    /\ UNCHANGED << imageIndex, m_currentFrame, m_semaphoreIndex, gpuQueue >>

Abandon_Advances ==
    /\ pc' = "idle"
    /\ waitedFence' = -1
    /\ m_currentFrame' = (m_currentFrame + 1) % MAX_FRAMES_IN_FLIGHT
    /\ UNCHANGED << imageIndex, m_semaphoreIndex, m_inFlightFences, gpuQueue >>

\* if (result == eErrorOutOfDateKHR) return;
Abandon ==
    /\ pc' = "idle"
    /\ waitedFence' = -1
    /\ UNCHANGED << imageIndex, m_currentFrame, m_semaphoreIndex, m_inFlightFences, gpuQueue >>

\* acquireNextImage; eErrorOutOfDateKHR abandons the frame
AcquireImage(results) ==
    /\ pc = "acquire"
    /\ \E result \in results :
          IF result = "eErrorOutOfDateKHR"
          THEN Abandon
          ELSE /\ pc' = "update"
               /\ imageIndex' \in AvailableImages
               /\ UNCHANGED << waitedFence, m_currentFrame, m_semaphoreIndex,
                               m_inFlightFences, gpuQueue >>
    /\ sync' = [sync EXCEPT !.acquireSemaphore = AcquireSemaphore]
    /\ lastWrites' = {}
    /\ UNCHANGED << taa, immediateSubmits, scene, commandBuffers, ind, m_instanceBuffersMapped, initialCopyDone,
                    lightsInitialCopyDone, m_blasInstances, m_blasInstancesBuffersMapped,
                    history >>

\* the effects of updateSceneResources on slot frameIdx: inst is what
\* updateInstanceBuffers returns, refresh what updateIndirectDrawBuffers returns
UpdateWith(track, frameIdx, inst, refresh) ==
    /\ m_instanceBuffersMapped' = [m_instanceBuffersMapped EXCEPT ![frameIdx] = inst.buf]
    /\ initialCopyDone' = [initialCopyDone EXCEPT ![frameIdx] = inst.done]
    /\ lightsInitialCopyDone' = [lightsInitialCopyDone EXCEPT ![frameIdx] = TRUE]
    /\ ind' = refresh.ind
    /\ lastWrites' =
           Written({Write("uniform", frameIdx, 1),
                    Write("instance", frameIdx, inst.written),
                    Write("pointLight", frameIdx,
                          LightWrites(scene.pointLights, lightsInitialCopyDone[frameIdx])),
                    Write("spotLight", frameIdx,
                          LightWrites(scene.spotLights, lightsInitialCopyDone[frameIdx]))})
           \cup (IF refresh.rebuilt THEN {Write("indirect", frameIdx, refresh.written)}
                 ELSE {})
    /\ history' = IF refresh.rebuilt
                  THEN [history EXCEPT
                            !.rebuilds = IF track THEN Append(@, history.frameNo) ELSE @,
                            !.lastRebuild[frameIdx] = RebuildCounts(refresh.ind)]
                  ELSE history

\* ResourceManager::updateSceneResources(scene, time, m_currentFrame, jitter)
UpdateSceneResources(track) ==
    /\ pc = "update"
    /\ UpdateWith(track, m_currentFrame,
                  updateInstanceBuffers(m_instanceBuffersMapped[m_currentFrame],
                                        initialCopyDone[m_currentFrame], scene),
                  updateIndirectDrawBuffers(ind, scene, m_currentFrame))
    /\ taa' = updateDescriptorSets(taa, m_currentFrame)
    /\ pc' = "reset"
    /\ UNCHANGED << immediateSubmits, sync, scene, m_currentFrame, m_semaphoreIndex, imageIndex, waitedFence,
                    m_inFlightFences, gpuQueue, commandBuffers, m_blasInstances,
                    m_blasInstancesBuffersMapped >>

\* resetFences(*m_inFlightFences[m_currentFrame]); cmd.reset()
ResetFence ==
    /\ pc = "reset"
    /\ m_inFlightFences' = [m_inFlightFences EXCEPT ![m_currentFrame] = FALSE]
    /\ commandBuffers' = [commandBuffers EXCEPT ![m_currentFrame] = << >>]
    /\ lastWrites' = {}
    /\ pc' = "record"
    /\ UNCHANGED << taa, immediateSubmits, sync, scene, m_currentFrame, m_semaphoreIndex, imageIndex, waitedFence,
                    gpuQueue, ind, m_instanceBuffersMapped, initialCopyDone,
                    lightsInitialCopyDone, m_blasInstances, m_blasInstancesBuffersMapped,
                    history >>

\* recordCommandBuffer(scene, imageIndex): the TLAS update first, then the raster pass
RecordCommandBuffer ==
    /\ pc = "record"
    /\ LET frameIdx == m_currentFrame
           tlas == recordTLASUpdate(m_blasInstancesBuffersMapped[frameIdx], m_blasInstances,
                                    scene, FALSE, frameIdx)
       IN
       /\ m_blasInstancesBuffersMapped' =
              [m_blasInstancesBuffersMapped EXCEPT ![frameIdx] = tlas.mapped]
       /\ m_blasInstances' = tlas.blasInstances
       /\ commandBuffers' = [commandBuffers EXCEPT ![frameIdx] =
              recordCommandBuffer(tlas.cmds, ind, frameIdx, imageIndex)]
       /\ lastWrites' = Written({Write("tlasInstance", frameIdx, tlas.written)})
    /\ taa' = recordTAA(taa, m_currentFrame, history.frameNo)
    /\ pc' = "submit"
    /\ UNCHANGED << immediateSubmits, sync, scene, m_currentFrame, m_semaphoreIndex, imageIndex, waitedFence,
                    m_inFlightFences, gpuQueue, ind, m_instanceBuffersMapped, initialCopyDone,
                    lightsInitialCopyDone, history >>

SubmitWaitSemaphore_Next == (m_semaphoreIndex + 1) % ImageCount

\* submitInfo.pWaitSemaphores: m_presentationCompleteSemaphores[m_semaphoreIndex]
SubmitWaitSemaphore == m_semaphoreIndex

\* m_renderFinishedSemaphores[imageIndex], signaled by the submission and waited on by presentKHR
RenderFinishedSemaphore == imageIndex

\* graphicsQueue().submit(submitInfo, *m_inFlightFences[m_currentFrame])
Submit ==
    /\ pc = "submit"
    /\ gpuQueue' = Append(gpuQueue,
           [slot |-> m_currentFrame, fence |-> m_currentFrame, image |-> imageIndex,
            waitSemaphore |-> SubmitWaitSemaphore, signalSemaphore |-> RenderFinishedSemaphore,
            writes |-> StreamWrites(commandBuffers[m_currentFrame])])
    /\ sync' = [sync EXCEPT !.waitSemaphore = SubmitWaitSemaphore,
                            !.waitStage = "eColorAttachmentOutput",
                            !.signalSemaphore = RenderFinishedSemaphore,
                            !.fence = m_currentFrame]
    /\ lastWrites' = {}
    /\ pc' = "present"
    /\ UNCHANGED << taa, immediateSubmits, scene, m_currentFrame, m_semaphoreIndex, imageIndex, waitedFence,
                    m_inFlightFences, commandBuffers, ind, m_instanceBuffersMapped,
                    initialCopyDone, lightsInitialCopyDone, m_blasInstances,
                    m_blasInstancesBuffersMapped, history >>

NextSemaphoreIndex_Stuck(semaphoreIndex) == semaphoreIndex

NextSemaphoreIndex_FramePool(semaphoreIndex) == (semaphoreIndex + 1) % MAX_FRAMES_IN_FLIGHT

\* (m_semaphoreIndex + 1) % m_presentationCompleteSemaphores.size()
NextSemaphoreIndex(semaphoreIndex) == (semaphoreIndex + 1) % ImageCount

\* (m_currentFrame + 1) % MAX_FRAMES_IN_FLIGHT
NextFrame(frame) == (frame + 1) % MAX_FRAMES_IN_FLIGHT

\* the results presentKHR hands back to drawFrame
PresentationResults == {"eSuccess", "eSuboptimalKHR", "eErrorOutOfDateKHR"}

\* presentKHR, then the switch over its result, every case of which is a bare
\* break, then the two indices advance
PresentAndAdvance ==
    /\ pc = "present"
    /\ \E presentationResult \in PresentationResults :
          /\ m_semaphoreIndex' = NextSemaphoreIndex(m_semaphoreIndex)
          /\ m_currentFrame' = NextFrame(m_currentFrame)
          /\ sync' = [sync EXCEPT !.presentWaitSemaphore = RenderFinishedSemaphore,
                                  !.presentImage = imageIndex,
                                  !.presentationResult = presentationResult]
    /\ waitedFence' = -1
    /\ lastWrites' = {}
    /\ pc' = "idle"
    /\ UNCHANGED << taa, immediateSubmits, scene, imageIndex, m_inFlightFences, gpuQueue, commandBuffers, ind,
                    m_instanceBuffersMapped, initialCopyDone, lightsInitialCopyDone,
                    m_blasInstances, m_blasInstancesBuffersMapped, history >>

\* ------------------------------------------------------------------------
\* The GPU: the oldest submitted frame finishes and its fence signals

GpuComplete ==
    /\ gpuQueue # << >>
    /\ m_inFlightFences' = [m_inFlightFences EXCEPT ![Head(gpuQueue).fence] = TRUE]
    /\ gpuQueue' = Tail(gpuQueue)
    /\ UNCHANGED << taa, immediateSubmits, sync, pc, scene, m_currentFrame, m_semaphoreIndex, imageIndex, waitedFence,
                    commandBuffers, ind, m_instanceBuffersMapped, initialCopyDone,
                    lightsInitialCopyDone, m_blasInstances, m_blasInstancesBuffersMapped,
                    lastWrites, history >>

\* ------------------------------------------------------------------------
\* Specifications

AcquireResults == {"eSuccess", "eErrorOutOfDateKHR"}

DrawFrame_WaitFence == WaitFence(FALSE)

DrawFrame_AcquireImage == AcquireImage(AcquireResults)

DrawFrame_UpdateSceneResources == UpdateSceneResources(FALSE)

Next ==
    \/ AllocateSceneResources
    \/ AllocationFails
    \/ Animate
    \/ DrawFrame_WaitFence
    \/ DrawFrame_AcquireImage
    \/ DrawFrame_UpdateSceneResources
    \/ ResetFence
    \/ RecordCommandBuffer
    \/ Submit
    \/ PresentAndAdvance
    \/ GpuComplete

Spec == Init /\ [][Next]_vars

\* ------------------------------------------------------------------------
\* The end-to-end scenario: the static scene, E2EFrames drawFrame calls none
\* of which is abandoned, the camera moved once before the fourth call or never

InitE2E == InitWith({SceneStatic}, {"A"})

E2E_WaitFence ==
    /\ history.frameNo < E2EFrames
    /\ WaitFence(TRUE)

E2E_AcquireImage == AcquireImage({"eSuccess"})

E2E_UpdateSceneResources == UpdateSceneResources(TRUE)

\* the free camera moves between the third and the fourth drawFrame call
E2E_MoveCamera ==
    /\ pc = "idle"
    /\ history.frameNo = 3
    /\ history.movedAt = 0
    /\ scene' = [scene EXCEPT !.camera = "B"]
    /\ history' = [history EXCEPT !.movedAt = 4]
    /\ UNCHANGED << taa, immediateSubmits, sync, pc, m_currentFrame, m_semaphoreIndex, imageIndex, waitedFence,
                    m_inFlightFences, gpuQueue, commandBuffers, ind, m_instanceBuffersMapped,
                    initialCopyDone, lightsInitialCopyDone, m_blasInstances,
                    m_blasInstancesBuffersMapped, lastWrites >>

NextE2E ==
    \/ AllocateSceneResources
    \/ E2E_MoveCamera
    \/ E2E_WaitFence
    \/ E2E_AcquireImage
    \/ E2E_UpdateSceneResources
    \/ ResetFence
    \/ RecordCommandBuffer
    \/ Submit
    \/ PresentAndAdvance
    \/ GpuComplete

SpecE2E == InitE2E /\ [][NextE2E]_vars

\* The frame loop under fair scheduling: the render thread, which does nothing
\* but run the loop, takes its next step whenever it can, and the GPU finishes
\* the oldest submitted frame
InitLive == InitWith({SceneStatic}, CameraPoses)

DrawFrameStep ==
    \/ AllocateSceneResources
    \/ DrawFrame_WaitFence
    \/ DrawFrame_AcquireImage
    \/ DrawFrame_UpdateSceneResources
    \/ ResetFence
    \/ RecordCommandBuffer
    \/ Submit
    \/ PresentAndAdvance

NextLive ==
    \/ DrawFrameStep
    \/ Animate
    \/ GpuComplete

\* the steps of the loop that wait for nothing but the render thread itself,
\* and the wait on the fence
ThreadStep ==
    \/ DrawFrame_WaitFence
    \/ DrawFrame_AcquireImage
    \/ ResetFence
    \/ RecordCommandBuffer
    \/ Submit
    \/ PresentAndAdvance

\* allocateSceneResources and updateSceneResources return: neither has a
\* precondition, so each can be taken exactly when the loop is at it
ScenePass == (pc = "alloc" /\ pc' = "idle") \/ (pc = "update" /\ pc' = "reset")

SpecLive ==
    InitLive /\ [][NextLive]_vars
        /\ WF_vars(ThreadStep) /\ WF_pc(ScenePass) /\ WF_vars(GpuComplete)

\* The same scenario on the crowded scenes
InitCrowded == InitWith(CrowdedScenes, {"A"})

SpecCrowded == InitCrowded /\ [][NextE2E]_vars


\* A glTF file whose animation channels drive nodes that carry no "animated"
\* extra: the loader takes the flag from the extra alone, the animator writes
\* the world matrix of every node with a mesh into its instances.
InitAnimator == InitWith({SceneAnimated}, {"A"})

\* Animator::animate: the transforms of all instances are rewritten, flagged or not
AnimateNodes ==
    /\ pc = "idle"
    /\ \E moved \in [1 .. Len(scene.instances) -> AnimatedTransforms] :
           scene' = [scene EXCEPT !.instances = [i \in 1 .. Len(scene.instances) |->
                                      [scene.instances[i] EXCEPT !.transform = moved[i]]]]
    /\ UNCHANGED << taa, immediateSubmits, sync, pc, m_currentFrame, m_semaphoreIndex,
                    imageIndex, waitedFence, m_inFlightFences, gpuQueue, commandBuffers, ind,
                    m_instanceBuffersMapped, initialCopyDone, lightsInitialCopyDone,
                    m_blasInstances, m_blasInstancesBuffersMapped, lastWrites, history >>

NextAnimator ==
    \/ AllocateSceneResources
    \/ AnimateNodes
    \/ DrawFrame_WaitFence
    \/ E2E_AcquireImage
    \/ DrawFrame_UpdateSceneResources
    \/ ResetFence
    \/ RecordCommandBuffer
    \/ Submit
    \/ PresentAndAdvance
    \/ GpuComplete

SpecAnimator == InitAnimator /\ [][NextAnimator]_vars

\* ------------------------------------------------------------------------
\* Frame pacing and slot ownership

\* the frame of the other slot is still on the GPU
OtherSlotPending == \E k \in 1 .. Len(gpuQueue) : gpuQueue[k].slot # m_currentFrame

\* C1: no per-slot buffer (uniform, instance, point-light, spot-light,
\* indirect-draw, TLAS instance) of slot s is written by the CPU while a frame
\* submitted on slot s has not finished on the GPU, and every such write made
\* inside a drawFrame call comes after that call's wait on the fence of slot s
\* has returned.
C1_NoWriteWhileSlotPending ==
    \A w \in lastWrites :
        /\ ~w.pending
        /\ w.inDrawFrame => w.afterWait

\* a drawFrame call writes the uniform buffer of its slot while the other
\* slot's frame is still on the GPU
C1_Witness ==
    /\ pc = "reset"
    /\ OtherSlotPending
    /\ \E w \in lastWrites : w.buf = "uniform" /\ w.slot = m_currentFrame /\ w.inDrawFrame

\* C2 as stated: no write to a buffer of slot i occurs while the fence of slot
\* i is unsignaled, the TLAS instance-buffer write made while recording
\* included.
C2_NoWriteWhileFenceUnsignaled ==
    \A w \in lastWrites : w.fenceSignaled

\* C2: the writes of updateSceneResources to the buffers of slot i occur while
\* the fence of slot i is signaled; the write of animated transforms into the
\* TLAS instance buffer of slot i made while recording occurs after the fence
\* of slot i was reset, hence while it is unsignaled, and before the frame is
\* submitted, so while no frame of slot i is on the GPU.
C2_SlotIsolation ==
    \A w \in lastWrites :
        IF w.buf = "tlasInstance" /\ w.inDrawFrame
        THEN ~w.fenceSignaled /\ ~w.pending /\ pc = "submit" /\ w.slot = m_currentFrame
        ELSE w.fenceSignaled /\ ~w.pending

\* recording has just written animated transforms into the TLAS instance
\* buffer of its slot, whose fence is unsignaled
C2_Witness ==
    /\ pc = "submit"
    /\ \E w \in lastWrites :
          w.buf = "tlasInstance" /\ w.slot = m_currentFrame /\ ~m_inFlightFences[w.slot]

\* C3: the frames submitted to the GPU and not yet finished are never more
\* than MAX_FRAMES_IN_FLIGHT.
C3_FramesInFlightBounded == Len(gpuQueue) <= MAX_FRAMES_IN_FLIGHT

\* MAX_FRAMES_IN_FLIGHT frames are on the GPU and the CPU is held at the wait
C3_Witness ==
    /\ Len(gpuQueue) = MAX_FRAMES_IN_FLIGHT
    /\ pc = "idle"
    /\ ~m_inFlightFences[m_currentFrame]

\* the attachments and structures a frame writes, the swapchain image aside
SlotResources(writes) == {r \in writes : r[1] # "swapChainImage"}

\* C4 as stated: two frames on the GPU at the same time on different slots
\* write no common resource (TLAS, TLAS scratch, colour, resolve, velocity and
\* depth attachments), each being indexed by the frame's slot.
C4_NoSharedWritableResource ==
    \A j, k \in 1 .. Len(gpuQueue) :
        gpuQueue[j].slot # gpuQueue[k].slot =>
            /\ SlotResources(gpuQueue[j].writes) \cap SlotResources(gpuQueue[k].writes) = {}
            /\ \A r \in SlotResources(gpuQueue[j].writes) : r[2] = gpuQueue[j].slot


\* ------------------------------------------------------------------------
\* Draw command generation

\* the material a command's instance is drawn with
CommandMaterial(cmd) ==
    At(scene.materials,
       At(scene.meshes, At(scene.instances, cmd.firstInstance).meshIndex).materialIndex)

CommandIsBlend(cmd) == cmd.firstInstance >= 0 /\ CommandMaterial(cmd).alphaMode = ALPHA_BLEND

CommandIsNotBlend(cmd) == cmd.firstInstance >= 0 /\ CommandMaterial(cmd).alphaMode # ALPHA_BLEND

\* the indirect buffer the frame being prepared draws from
CurrentIndirectBuffer == At(ind.m_indirectDrawBuffers, m_currentFrame)

\* C5 as stated: after the refresh of a slot, the commands at [0, opaqueCount)
\* of the slot's indirect buffer reference instances whose material is not
\* blend and those at [opaqueCount, opaqueCount + transparentCount) reference
\* instances whose material is blend, with the counts the renderer reads.
C5_PartitionInvariant ==
    pc = "reset" =>
        /\ \A p \in 0 .. (ind.m_opaqueDrawCount - 1) :
               CommandIsNotBlend(At(CurrentIndirectBuffer, p))
        /\ \A p \in ind.m_opaqueDrawCount ..
                    (ind.m_opaqueDrawCount + ind.m_transparentDrawCount - 1) :
               CommandIsBlend(At(CurrentIndirectBuffer, p))

NoInstanceAnimated == \A i \in 1 .. Len(scene.instances) : scene.instances[i].animated = 0

IndirectWritten(writes) == \E w \in writes : w.buf = "indirect"

\* C6: a refresh of a slot made while the camera view-projection equals the
\* one cached for the slot and no instance is flagged animated writes nothing
\* to an indirect-draw buffer and leaves the cache and the two counts as they
\* were.
C6_NoOpRefresh ==
    [][(/\ pc = "update"
        /\ pc' = "reset"
        /\ NoInstanceAnimated
        /\ getViewProjection(scene.camera) = At(ind.m_cachedCameraViewProj, m_currentFrame))
       => (ind' = ind /\ ~IndirectWritten(lastWrites'))]_vars

\* a refresh of a slot with commands to draw has just run with the camera
\* where the slot's cache has it and nothing animated, and has written nothing
C6_Witness ==
    /\ pc = "reset"
    /\ NoInstanceAnimated
    /\ ind.m_indirectDrawCount > 0
    /\ getViewProjection(scene.camera) = At(ind.m_cachedCameraViewProj, m_currentFrame)
    /\ ~IndirectWritten(lastWrites)

\* C8: with no instance flagged animated (and initialBuild false), recording
\* puts no barrier and no build or update of the acceleration structure in the
\* frame's command stream and writes nothing to the slot's TLAS instance buffer.
C8_TLASUpdateSkipped ==
    (pc = "submit" /\ NoInstanceAnimated) =>
        /\ \A k \in 1 .. Len(commandBuffers[m_currentFrame]) :
               commandBuffers[m_currentFrame][k].op
                   \notin {"pipelineBarrier", "buildAccelerationStructuresKHR"}
        /\ \A w \in lastWrites : w.buf # "tlasInstance"

\* a frame of a scene without animated instances has just been recorded
C8_Witness ==
    /\ pc = "submit"
    /\ NoInstanceAnimated
    /\ Len(scene.instances) > 0
    /\ commandBuffers[m_currentFrame] # << >>
    /\ lastWrites = {}

\* Reference geometry, in clip space: row r of the view-projection applied to (c, 1)
ClipCoord(viewProj, c, r) ==
    El(viewProj, 0, r) * c[1] + El(viewProj, 1, r) * c[2] + El(viewProj, 2, r) * c[3]
        + El(viewProj, 3, r)

\* tested plane k of 0 .. 4 is w + x, w - x, w + y, w - y, w + z
TestedAxis(k) == k \div 2

TestedSign(k) == IF k % 2 = 0 THEN 1 ELSE -1

\* the unnormalised signed distance of c to tested plane k
TestedPlaneValue(viewProj, k, c) ==
    ClipCoord(viewProj, c, 3) + TestedSign(k) * ClipCoord(viewProj, c, TestedAxis(k))

\* the squared length of the normal of tested plane k
TestedPlaneNormSq(viewProj, k) ==
    LET n(col) == El(viewProj, col, 3) + TestedSign(k) * El(viewProj, col, TestedAxis(k))
    IN  n(0) * n(0) + n(1) * n(1) + n(2) * n(2)

\* the square of the diameter of the world-space bounding sphere
SphereDiameterSq(mesh, instance) ==
    LET e == Sub3(mesh.boundingBoxMax, mesh.boundingBoxMin)
        l(c) == Dot3(Column3(instance.transform, c), Column3(instance.transform, c))
    IN  Dot3(e, e) * Max2(l(0), Max2(l(1), l(2)))

InstanceMesh(i) == At(scene.meshes, At(scene.instances, i).meshIndex)

\* signed distance < -radius
FullyOutside(i, k) ==
    LET v == 2 * TestedPlaneValue(getViewProjection(scene.camera), k,
                                  WorldCenter(InstanceMesh(i), At(scene.instances, i)))
    IN  v < 0 /\ v * v > SphereDiameterSq(InstanceMesh(i), At(scene.instances, i))
                           * TestedPlaneNormSq(getViewProjection(scene.camera), k)

\* signed distance >= radius
FullyInside(i, k) ==
    LET v == 2 * TestedPlaneValue(getViewProjection(scene.camera), k,
                                  WorldCenter(InstanceMesh(i), At(scene.instances, i)))
    IN  v >= 0 /\ v * v >= SphereDiameterSq(InstanceMesh(i), At(scene.instances, i))
                            * TestedPlaneNormSq(getViewProjection(scene.camera), k)

TestedPlaneIndices == 0 .. (TESTED_PLANES - 1)

InstanceIndices == 0 .. (Len(scene.instances) - 1)

\* the generated list: the first opaqueCount + transparentCount commands
HasCommand(i) ==
    \E p \in 0 .. (ind.m_opaqueDrawCount + ind.m_transparentDrawCount - 1) :
        At(CurrentIndirectBuffer, p).firstInstance = i

MeshInRange(i) ==
    At(scene.instances, i).meshIndex >= 0 /\ At(scene.instances, i).meshIndex < Len(scene.meshes)

MaterialInRange(i) ==
    MeshInRange(i) /\ InstanceMesh(i).materialIndex >= 0 /\ InstanceMesh(i).materialIndex < Len(scene.materials)

InstanceIsBlend(i) ==
    MaterialInRange(i)
        /\ At(scene.materials, InstanceMesh(i).materialIndex).alphaMode = ALPHA_BLEND

\* the transparent commands generated for the instances before i
TransparentBefore(i) ==
    Cardinality({j \in InstanceIndices :
        j < i /\ MeshInRange(j) /\ InstanceIsBlend(j) /\ \A k \in TestedPlaneIndices : ~FullyOutside(j, k)})

\* the refresh of this frame rebuilt the slot's indirect buffer
RebuiltThisFrame == pc = "reset" /\ IndirectWritten(lastWrites)

NeverCommandWhenOutside ==
    \A i \in InstanceIndices :
        (MeshInRange(i) /\ \E k \in TestedPlaneIndices : FullyOutside(i, k)) => ~HasCommand(i)

\* C9 as stated: in a rebuild an instance whose sphere is fully outside one
\* tested plane gets no command and one whose sphere is fully inside all
\* tested planes always gets a command.
C9_FrustumCorrectnessAsStated ==
    RebuiltThisFrame =>
        /\ NeverCommandWhenOutside
        /\ \A i \in InstanceIndices :
               (MeshInRange(i) /\ \A k \in TestedPlaneIndices : FullyInside(i, k))
                   => HasCommand(i)

\* C9: in a rebuild an instance whose sphere is fully outside one tested plane
\* gets no command; an instance whose sphere is fully inside all tested planes
\* gets a command provided its mesh index and the material index of its mesh
\* are in range and, if its material is blend, fewer than
\* min(instance count, MAX_TRANSPARENT) transparent commands were generated
\* before it.
C9_FrustumCorrectness ==
    RebuiltThisFrame =>
        /\ NeverCommandWhenOutside
        /\ \A i \in InstanceIndices :
               (/\ MeshInRange(i)
                /\ \A k \in TestedPlaneIndices : FullyInside(i, k)
                /\ MaterialInRange(i)
                /\ InstanceIsBlend(i) =>
                       TransparentBefore(i) < Min2(Len(scene.instances), MAX_TRANSPARENT))
               => HasCommand(i)

\* a rebuild that culled one instance and kept another that is fully inside
C9_Witness ==
    /\ RebuiltThisFrame
    /\ \E i, j \in InstanceIndices :
          /\ MeshInRange(i)
          /\ MeshInRange(j)
          /\ \E k \in TestedPlaneIndices : FullyOutside(i, k)
          /\ ~HasCommand(i)
          /\ \A k \in TestedPlaneIndices : FullyInside(j, k)
          /\ HasCommand(j)


\* ------------------------------------------------------------------------
\* Order of the recorded commands

HasTLASUpdate(stream) ==
    \E k \in 1 .. Len(stream) : stream[k].op = "buildAccelerationStructuresKHR"

\* C10: a command stream that contains a TLAS update starts with a memory
\* barrier from earlier structure writes and shader reads to structure-build
\* access, then the update, then a memory barrier from structure write to
\* shader read, and every draw command of the stream comes after these three.
C10_TLASUpdateOrdered ==
    \A s \in Slots :
        LET stream == commandBuffers[s] IN
        HasTLASUpdate(stream) =>
            /\ Len(stream) >= 3
            /\ stream[1].op = "pipelineBarrier"
            /\ {"eAccelerationStructureWriteKHR", "eShaderRead"} \subseteq stream[1].srcAccessMask
            /\ stream[1].dstAccessMask =
                   {"eAccelerationStructureReadKHR", "eAccelerationStructureWriteKHR"}
            /\ stream[2].op = "buildAccelerationStructuresKHR"
            /\ SubSeq(stream[2].arg, 1, 3) = <<"eUpdate", s, s>>
            /\ stream[3].op = "pipelineBarrier"
            /\ stream[3].srcAccessMask = {"eAccelerationStructureWriteKHR"}
            /\ "eShaderRead" \in stream[3].dstAccessMask
            /\ \A k \in 1 .. Len(stream) :
                   /\ stream[k].op = "drawIndexedIndirect" => k > 3
                   /\ stream[k].op = "buildAccelerationStructuresKHR" => k = 2

\* a recorded stream with a TLAS update and a draw command
C10_Witness ==
    /\ pc = "submit"
    /\ HasTLASUpdate(commandBuffers[m_currentFrame])
    /\ \E k \in 1 .. Len(commandBuffers[m_currentFrame]) :
          commandBuffers[m_currentFrame][k].op = "drawIndexedIndirect"

\* ------------------------------------------------------------------------
\* The end-to-end scenario (SpecE2E)

\* the refresh of the frame counted by history.frameNo has not run yet
BeforeRefresh == pc \in {"acquire", "update"}

AllocationRebuilds == [k \in 1 .. MAX_FRAMES_IN_FLIGHT |-> 0]

DrawCounts == << ind.m_opaqueDrawCount, ind.m_transparentDrawCount >>

C11_SceneUpdatedAfterWait ==
    [][scene' # scene => waitedFence = m_currentFrame]_vars

\* the step that abandons a frame: acquisition returned out of date
AbandonStep == pc = "acquire" /\ pc' = "idle"

\* C12: a drawFrame call whose acquisition returns out of date submits and
\* presents nothing, resets no fence, writes no per-slot buffer, leaves the
\* draw counts, the slot index and the semaphore index as they were, and
\* leaves the fence of the slot the next call targets signaled.
C12_AbandonKeepsState ==
    [][AbandonStep =>
          /\ UNCHANGED << gpuQueue, m_inFlightFences, m_currentFrame, m_semaphoreIndex, ind,
                          commandBuffers, m_instanceBuffersMapped,
                          m_blasInstancesBuffersMapped >>
          /\ lastWrites' = {}
          /\ sync'.waitSemaphore = -1
          /\ sync'.presentWaitSemaphore = -1
          /\ m_inFlightFences'[m_currentFrame']]_vars

\* a call that acquired and returned without submitting, a frame of the other
\* slot being on the GPU
C12_Witness ==
    /\ pc = "idle"
    /\ sync.acquireSemaphore # -1
    /\ sync.waitSemaphore = -1
    /\ gpuQueue # << >>
    /\ m_inFlightFences[m_currentFrame]

\* C13: the fence of the frame's slot is reset when the frame is submitted;
\* the submission waits at the colour-attachment-output stage on the semaphore
\* handed to the frame's acquisition and signals the render-finished
\* semaphore of the acquired image and the fence of the slot; presentation
\* waits on the render-finished semaphore the submission signals.
C13_SubmitPresentOrder ==
    /\ pc = "submit" => ~m_inFlightFences[m_currentFrame]
    /\ sync.waitSemaphore # -1 =>
           /\ sync.waitSemaphore = sync.acquireSemaphore
           /\ sync.waitStage = "eColorAttachmentOutput"
           /\ sync.signalSemaphore = imageIndex
    /\ pc = "present" =>
           /\ sync.fence = m_currentFrame
           /\ gpuQueue # << >> => gpuQueue[Len(gpuQueue)].fence = gpuQueue[Len(gpuQueue)].slot
    /\ sync.presentWaitSemaphore # -1 =>
           /\ sync.waitSemaphore # -1
           /\ sync.presentWaitSemaphore = sync.signalSemaphore
           /\ sync.presentImage = imageIndex

\* a presented frame, after the semaphore index and the slot index diverged
C13_Witness ==
    /\ pc = "idle"
    /\ sync.presentWaitSemaphore # -1
    /\ m_semaphoreIndex # m_currentFrame

PresentStep == pc = "present" /\ pc' = "idle"

\* C14: the step that presents advances the semaphore index by one modulo the
\* number of swapchain images and the slot index by one modulo
\* MAX_FRAMES_IN_FLIGHT, no other step changes either index, and both stay
\* within their pool.
C14_IndicesAdvance ==
    /\ [](/\ m_currentFrame \in 0 .. (MAX_FRAMES_IN_FLIGHT - 1)
          /\ m_semaphoreIndex \in 0 .. (ImageCount - 1))
    /\ [][IF PresentStep
          THEN /\ m_semaphoreIndex' = (m_semaphoreIndex + 1) % ImageCount
               /\ m_currentFrame' = (m_currentFrame + 1) % MAX_FRAMES_IN_FLIGHT
          ELSE UNCHANGED << m_semaphoreIndex, m_currentFrame >>]_vars

\* the semaphore index reached the last image while the slot index wrapped
C14_Witness ==
    /\ pc = "idle"
    /\ m_semaphoreIndex = ImageCount - 1
    /\ m_currentFrame = (ImageCount - 1) % MAX_FRAMES_IN_FLIGHT
    /\ sync.presentWaitSemaphore # -1


\* ------------------------------------------------------------------------
\* Sparse scenes

\* the mesh index of instance i, or the material index of its mesh, is out of range
NotDrawable(i) == ~MeshInRange(i) \/ ~MaterialInRange(i)

\* C15 as stated: for a scene with instances whose mesh index, or whose
\* mesh's material index, is out of range, allocation and every refresh
\* complete without failure and without an out-of-range access, and no draw
\* command is generated for those instances.
C15_SparseSceneTolerated ==
    /\ pc # "crashed"
    /\ pc # "alloc" =>
           ~(createBLAS_OutOfRange(scene) \/ createBLASInstances_OutOfRange(scene))
    /\ RebuiltThisFrame => \A i \in InstanceIndices : NotDrawable(i) => ~HasCommand(i)


\* ------------------------------------------------------------------------
\* The transparent cap

\* instances a rebuild for the current camera draws as transparent / as opaque
VisibleBlend ==
    {i \in InstanceIndices :
        MeshInRange(i) /\ InstanceIsBlend(i) /\ \A k \in TestedPlaneIndices : ~FullyOutside(i, k)}

VisibleNotBlend ==
    {i \in InstanceIndices :
        /\ MeshInRange(i)
        /\ MaterialInRange(i)
        /\ ~InstanceIsBlend(i)
        /\ \A k \in TestedPlaneIndices : ~FullyOutside(i, k)}

\* C16: the transparent count never exceeds MAX_TRANSPARENT nor the number of
\* instances n, opaque plus transparent never exceeds n, the size of the
\* buffer, so nothing is written past its end; a rebuild keeps a command for
\* every visible opaque instance, and puts right after them the commands of
\* the first transparentCount visible transparent instances, dropping only
\* transparent ones beyond MAX_TRANSPARENT.
C16_TransparentCapped ==
    LET n == Len(scene.instances)
        o == ind.m_opaqueDrawCount
        t == ind.m_transparentDrawCount
        blend == VisibleBlend
        opaque == VisibleNotBlend
        buf == CurrentIndirectBuffer
    IN  /\ pc # "alloc" =>
               /\ t <= MAX_TRANSPARENT
               /\ t <= n
               /\ o + t <= n
               /\ \A s \in Slots : Len(At(ind.m_indirectDrawBuffers, s)) = n
        /\ RebuiltThisFrame =>
               /\ o = Cardinality(opaque)
               /\ \A p \in 0 .. (o - 1) : At(buf, p).firstInstance \in opaque
               /\ \A p \in 1 .. (o - 1) :
                      At(buf, p - 1).firstInstance < At(buf, p).firstInstance
               /\ t = IF Cardinality(blend) < MAX_TRANSPARENT
                      THEN Cardinality(blend) ELSE MAX_TRANSPARENT
               /\ \A p \in o .. (o + t - 1) : At(buf, p).firstInstance \in blend
               /\ \A p \in (o + 1) .. (o + t - 1) :
                      At(buf, p - 1).firstInstance < At(buf, p).firstInstance
               /\ t > 0 =>
                      Cardinality({j \in blend : j <= At(buf, o + t - 1).firstInstance}) = t

\* a rebuild has just dropped transparent commands at the cap and kept the
\* opaque instance that comes after them
C16_Witness ==
    /\ RebuiltThisFrame
    /\ Cardinality(VisibleBlend) > MAX_TRANSPARENT
    /\ ind.m_transparentDrawCount = MAX_TRANSPARENT
    /\ ind.m_opaqueDrawCount >= 1
    /\ HasCommand(Len(scene.instances) - 1)


\* ------------------------------------------------------------------------
\* When a refresh rebuilds

\* the refresh of the slot of the frame being prepared
RefreshStep == pc = "update" /\ pc' = "reset"

\* the slot's cache is stale, or the slot was never initialized, or an instance is animated
RebuildDue ==
    \/ ViewProjDiffers(getViewProjection(scene.camera),
                       At(ind.m_cachedCameraViewProj, m_currentFrame))
    \/ ~At(ind.m_indirectDrawBuffersInitialized, m_currentFrame)
    \/ ~NoInstanceAnimated

\* C17 as stated: whenever the camera view-projection differs from the one
\* cached for the slot by more than the threshold, or the slot was never
\* initialized, or an instance is flagged animated, the refresh rewrites the
\* slot's indirect buffer and leaves the counts of the culling result for the
\* current camera.
C17_RebuildWhenDue ==
    [][(RefreshStep /\ RebuildDue) =>
           /\ IndirectWritten(lastWrites')
           /\ ind'.m_opaqueDrawCount = Cardinality(VisibleNotBlend)
           /\ ind'.m_transparentDrawCount =
                  IF Cardinality(VisibleBlend) < MAX_TRANSPARENT
                  THEN Cardinality(VisibleBlend) ELSE MAX_TRANSPARENT]_vars


\* ------------------------------------------------------------------------
\* Instance and light buffer updates

\* the number of elements the writes put into buffer b of slot s
WrittenCount(writes, b, s) ==
    IF \E w \in writes : w.buf = b /\ w.slot = s
    THEN (CHOOSE w \in writes : w.buf = b /\ w.slot = s).n
    ELSE 0

AnimatedCount(records) == Cardinality({i \in 1 .. Len(records) : records[i].animated # 0})

\* the update writes exactly the flagged entries of the instance and light arrays of slot f
WritesAnimatedOnly(f) ==
    /\ \A i \in 1 .. Len(scene.instances) :
           m_instanceBuffersMapped'[f][i] =
               IF scene.instances[i].animated # 0 THEN scene.instances[i]
               ELSE m_instanceBuffersMapped[f][i]
    /\ WrittenCount(lastWrites', "instance", f) = AnimatedCount(scene.instances)
    /\ WrittenCount(lastWrites', "pointLight", f) = AnimatedCount(scene.pointLights)
    /\ WrittenCount(lastWrites', "spotLight", f) = AnimatedCount(scene.spotLights)

\* the update leaves the buffers of every slot other than f as they were
OtherSlotsUntouched(f) ==
    /\ \A s \in Slots \ {f} : m_instanceBuffersMapped'[s] = m_instanceBuffersMapped[s]
    /\ \A w \in lastWrites' : w.slot = f

\* C18 as stated: the first per-frame update of a slot copies the whole
\* instance, point-light and spot-light arrays into the slot's buffers; every
\* later update of the slot writes exactly the entries flagged animated and
\* leaves the other entries and the other slots' buffers unchanged.
C18_FirstUpdateCopiesAll ==
    [][RefreshStep =>
           /\ OtherSlotsUntouched(m_currentFrame)
           /\ IF ~initialCopyDone[m_currentFrame]
              THEN /\ m_instanceBuffersMapped'[m_currentFrame] = scene.instances
                   /\ WrittenCount(lastWrites', "instance", m_currentFrame)
                          = Len(scene.instances)
                   /\ WrittenCount(lastWrites', "pointLight", m_currentFrame)
                          = Len(scene.pointLights)
                   /\ WrittenCount(lastWrites', "spotLight", m_currentFrame)
                          = Len(scene.spotLights)
              ELSE WritesAnimatedOnly(m_currentFrame)]_vars

\* C18: the first per-frame update of a slot copies the whole instance array
\* into the slot's instance buffer and every later one writes exactly the
\* instances flagged animated; the whole light arrays are copied into every
\* slot's light buffers at allocation, and every per-frame update, the first
\* included, writes exactly the lights flagged animated; no update touches
\* another slot's buffers.
C18_BufferUpdates ==
    /\ [][(pc = "alloc" /\ pc' = "idle") =>
              \A s \in Slots :
                  /\ WrittenCount(lastWrites', "pointLight", s) = Len(scene.pointLights)
                  /\ WrittenCount(lastWrites', "spotLight", s) = Len(scene.spotLights)]_vars
    /\ [][RefreshStep =>
              /\ OtherSlotsUntouched(m_currentFrame)
              /\ IF ~initialCopyDone[m_currentFrame]
                 THEN /\ m_instanceBuffersMapped'[m_currentFrame] = scene.instances
                      /\ initialCopyDone'[m_currentFrame]
                      /\ WrittenCount(lastWrites', "instance", m_currentFrame)
                             = Len(scene.instances)
                      /\ WrittenCount(lastWrites', "pointLight", m_currentFrame)
                             = AnimatedCount(scene.pointLights)
                      /\ WrittenCount(lastWrites', "spotLight", m_currentFrame)
                             = AnimatedCount(scene.spotLights)
                 ELSE WritesAnimatedOnly(m_currentFrame)]_vars

\* a later update of slot 1 has just written the one animated instance and the
\* one animated point light of a scene that also has a static instance and a
\* static spot light, after the animator moved the instance
C18_Witness ==
    /\ pc = "reset"
    /\ m_currentFrame = 1
    /\ initialCopyDone[0]
    /\ Len(scene.instances) > AnimatedCount(scene.instances)
    /\ Len(scene.spotLights) > AnimatedCount(scene.spotLights)
    /\ WrittenCount(lastWrites, "instance", 1) = AnimatedCount(scene.instances)
    /\ WrittenCount(lastWrites, "instance", 1) > 0
    /\ WrittenCount(lastWrites, "pointLight", 1) = 1
    /\ WrittenCount(lastWrites, "spotLight", 1) = 0
    /\ m_instanceBuffersMapped[1] = scene.instances
    /\ m_instanceBuffersMapped[0] # scene.instances


\* ------------------------------------------------------------------------
\* The per-frame TLAS update

\* recordCommandBuffer of the frame being prepared
RecordStep == pc = "record" /\ pc' = "submit"

\* the commands of a stream that build or update an acceleration structure
BuildCommands(stream) ==
    {k \in 1 .. Len(stream) : stream[k].op = "buildAccelerationStructuresKHR"}

\* every acceleration-structure command of the stream is an update of slot f's
\* structure onto itself with slot f's scratch and instance buffers, and the
\* stream writes no TLAS resource of another slot
UpdatesOwnStructure(stream, f) ==
    /\ \A k \in BuildCommands(stream) :
           /\ stream[k].arg = <<"eUpdate", f, f, f, f>>
           /\ stream[k].writes = {Res("tlas", f), Res("tlasScratch", f)}
    /\ \A k \in 1 .. Len(stream) : \A r \in stream[k].writes :
           r[1] \in {"tlas", "tlasScratch", "tlasInstance"} => r[2] = f

\* C19: the TLAS update recorded for a slot writes into that slot's instance
\* buffer exactly the transforms of the instances flagged animated (of all
\* instances on a forced full refresh); the operation it issues is an update,
\* not a build, with that slot's structure as source and destination and that
\* slot's scratch and instance buffers; the instance buffer of the other slot
\* is left as it was.
C19_TLASUpdateOwnSlot ==
    /\ [][RecordStep =>
              /\ \A i \in 1 .. Len(scene.instances) :
                     m_blasInstancesBuffersMapped'[m_currentFrame][i] =
                         IF scene.instances[i].animated # 0
                         THEN TransformMatrixKHR(scene.instances[i].transform)
                         ELSE m_blasInstancesBuffersMapped[m_currentFrame][i]
              /\ WrittenCount(lastWrites', "tlasInstance", m_currentFrame)
                     = AnimatedCount(scene.instances)
              /\ \A s \in Slots \ {m_currentFrame} :
                     m_blasInstancesBuffersMapped'[s] = m_blasInstancesBuffersMapped[s]
              /\ \A w \in lastWrites' : w.slot = m_currentFrame
              /\ UpdatesOwnStructure(commandBuffers'[m_currentFrame], m_currentFrame)
              /\ AnimatedCount(scene.instances) > 0 =>
                     BuildCommands(commandBuffers'[m_currentFrame]) # {}]_vars
    /\ [](pc \notin {"alloc", "crashed"} =>
              \A f \in Slots :
                  LET full == recordTLASUpdate(m_blasInstancesBuffersMapped[f], m_blasInstances,
                                               scene, TRUE, f)
                  IN  /\ full.mapped = [i \in 1 .. Len(scene.instances) |->
                                           TransformMatrixKHR(scene.instances[i].transform)]
                      /\ full.written = Len(scene.instances)
                      /\ UpdatesOwnStructure(full.cmds, f)
                      /\ BuildCommands(full.cmds) # {})

\* the update of slot 1 has just been recorded after the animator moved an
\* instance: slot 1's instance buffer has the new transform, slot 0's the old
C19_Witness ==
    /\ pc = "submit"
    /\ m_currentFrame = 1
    /\ BuildCommands(commandBuffers[1]) # {}
    /\ WrittenCount(lastWrites, "tlasInstance", 1) = AnimatedCount(scene.instances)
    /\ AnimatedCount(scene.instances) < Len(scene.instances)
    /\ m_blasInstancesBuffersMapped[1] # m_blasInstancesBuffersMapped[0]


\* ------------------------------------------------------------------------
\* Termination of drawFrame

\* the fence of slot s was reset by the call in progress, which has not submitted yet
ResetForSubmission(s) == s = m_currentFrame /\ pc \in {"record", "submit"}

\* C20: with a GPU that finishes every submitted frame, the fence a drawFrame
\* call waits on is always signaled or attached to a submitted frame, and a
\* fence is unsignaled without a submission only between the reset and the
\* submit of the call in progress; the wait of every call returns, every call
\* past its wait returns, and a frame whose recording has started is submitted.
C20_DrawFrameTerminates ==
    /\ [](pc = "idle" => (m_inFlightFences[m_currentFrame] \/ SlotPending(m_currentFrame)))
    /\ [](\A s \in Slots : m_inFlightFences[s] \/ SlotPending(s) \/ ResetForSubmission(s))
    /\ (pc = "idle") ~> (pc = "acquire")
    /\ (pc = "acquire") ~> (pc = "idle")
    /\ (pc = "record") ~> (pc = "present" /\ sync.fence = m_currentFrame)

\* the loop is about to wait on a fence that is unsignaled and attached to a
\* submitted frame, with a frame of each slot on the GPU
C20_Witness ==
    /\ pc = "idle"
    /\ ~m_inFlightFences[m_currentFrame]
    /\ SlotPending(m_currentFrame)
    /\ Len(gpuQueue) = MAX_FRAMES_IN_FLIGHT


\* ------------------------------------------------------------------------
\* The commands of a rebuild

\* the positions of the generated list that hold the command of instance i
CommandPositions(i) ==
    {p \in 0 .. (ind.m_opaqueDrawCount + ind.m_transparentDrawCount - 1) :
        At(CurrentIndirectBuffer, p).firstInstance = i}

\* every generated command has the fields of its instance's mesh, and sits in
\* the transparent range exactly when its material is blend
CommandsWellFormed ==
    \A p \in 0 .. (ind.m_opaqueDrawCount + ind.m_transparentDrawCount - 1) :
        LET cmd == At(CurrentIndirectBuffer, p) IN
        /\ cmd.firstInstance \in InstanceIndices
        /\ MeshInRange(cmd.firstInstance)
        /\ cmd.indexCount = InstanceMesh(cmd.firstInstance).indexCount
        /\ cmd.instanceCount = 1
        /\ cmd.firstIndex = InstanceMesh(cmd.firstInstance).baseIndex
        /\ cmd.vertexOffset = InstanceMesh(cmd.firstInstance).baseVertex
        /\ (p >= ind.m_opaqueDrawCount) = InstanceIsBlend(cmd.firstInstance)

\* the visible transparent instances a rebuild drops: those after the first
\* MAX_TRANSPARENT visible transparent ones
BeyondCap ==
    LET blend == VisibleBlend IN
    {i \in blend : Cardinality({j \in blend : j < i}) >= MAX_TRANSPARENT}

\* C21 as stated: a rebuild emits exactly one command for every visible
\* instance and none for any other, with the fields of the instance's mesh,
\* instanceCount 1 and firstInstance the instance index, in the transparent
\* range when the material is blend and in the opaque range otherwise.
C21_OneCommandPerVisible ==
    RebuiltThisFrame =>
        LET visible == VisibleBlend \cup VisibleNotBlend IN
        /\ CommandsWellFormed
        /\ \A i \in InstanceIndices :
               Cardinality(CommandPositions(i)) = IF i \in visible THEN 1 ELSE 0

\* C21: as stated, except that the visible transparent instances after the
\* first MAX_TRANSPARENT visible transparent ones get no command.
C21_OneCommandPerKept ==
    RebuiltThisFrame =>
        LET kept == (VisibleBlend \cup VisibleNotBlend) \ BeyondCap IN
        /\ CommandsWellFormed
        /\ \A i \in InstanceIndices :
               Cardinality(CommandPositions(i)) = IF i \in kept THEN 1 ELSE 0

\* a rebuild has just emitted opaque and transparent commands, culled an
\* instance and dropped a transparent one at the cap
C21_Witness ==
    /\ RebuiltThisFrame
    /\ ind.m_opaqueDrawCount > 0
    /\ ind.m_transparentDrawCount > 0
    /\ BeyondCap # {}
    /\ \E i \in InstanceIndices : i \notin (VisibleBlend \cup VisibleNotBlend)

\* ------------------------------------------------------------------------
\* The presentation result

\* presentKHR has just returned a result other than success
PresentFailedStep ==
    /\ pc = "present"
    /\ pc' # "present"
    /\ sync'.presentationResult \in {"eSuboptimalKHR", "eErrorOutOfDateKHR"}

\* C22 as stated: an out-of-date or suboptimal presentation result is logged
\* and drawFrame returns normally: both indices advance, the fences, the
\* queue and every resource stay as they are, and the next call can be made.
C22_PresentResultLogged ==
    [][PresentFailedStep =>
           /\ sync'.logged > sync.logged
           /\ pc' = "idle"
           /\ m_semaphoreIndex' = (m_semaphoreIndex + 1) % ImageCount
           /\ m_currentFrame' = (m_currentFrame + 1) % MAX_FRAMES_IN_FLIGHT
           /\ UNCHANGED << m_inFlightFences, gpuQueue, commandBuffers, ind,
                           m_instanceBuffersMapped, m_blasInstancesBuffersMapped >>]_vars

\* ------------------------------------------------------------------------
\* The planes of the culling test

\* Left, Right, Bottom, Top of Frustum::planes
SidePlaneIndices == 0 .. 3

\* indices of the Near and the Far plane in Frustum::planes
NearPlane == 4

FarPlane == 5

\* instance i has a mesh and a material, and no side plane has its sphere fully outside
InsideSidePlanes(i) ==
    MaterialInRange(i) /\ \A k \in SidePlaneIndices : ~FullyOutside(i, k)

\* C23 as stated: the culling test leaves out the near and the far plane: an
\* instance is never rejected because its sphere lies entirely in front of
\* the near plane or entirely beyond the far plane.
C23_NearAndFarExcluded ==
    RebuiltThisFrame =>
        \A i \in InstanceIndices : InsideSidePlanes(i) => HasCommand(i)

\* C23: the culling test uses the left, right, bottom, top and near plane and
\* leaves out the far plane only: an instance is never rejected because its
\* sphere lies entirely beyond the far plane, and one whose sphere lies
\* entirely in front of the near plane is rejected.
C23_OnlyFarExcluded ==
    RebuiltThisFrame =>
        \A i \in InstanceIndices :
            /\ (InsideSidePlanes(i) /\ ~FullyOutside(i, NearPlane)) => HasCommand(i)
            /\ (MeshInRange(i) /\ FullyOutside(i, NearPlane)) => ~HasCommand(i)

\* a rebuild has just kept an instance that lies entirely beyond the far plane
\* and rejected one inside the side planes that lies entirely in front of the
\* near plane
C23_Witness ==
    /\ RebuiltThisFrame
    /\ \E i \in InstanceIndices :
           InsideSidePlanes(i) /\ FullyOutside(i, FarPlane) /\ HasCommand(i)
    /\ \E j \in InstanceIndices :
           InsideSidePlanes(j) /\ FullyOutside(j, NearPlane) /\ ~HasCommand(j)

\* ------------------------------------------------------------------------
\* The camera cache of a slot

\* the refresh of the frame being prepared has rebuilt its slot's buffer
RebuildStep == RefreshStep /\ IndirectWritten(lastWrites')

\* the cache and the initialized flag of every slot but f stay as they are
OtherCachesKept(f) ==
    \A s \in Slots \ {f} :
        /\ At(ind'.m_cachedCameraViewProj, s) = At(ind.m_cachedCameraViewProj, s)
        /\ At(ind'.m_indirectDrawBuffersInitialized, s)
               = At(ind.m_indirectDrawBuffersInitialized, s)

\* the rebuild is one the camera asked for: the slot was never initialized or
\* the view-projection left the cached one by more than the threshold
CameraRebuild ==
    \/ ~At(ind.m_indirectDrawBuffersInitialized, m_currentFrame)
    \/ ViewProjDiffers(getViewProjection(scene.camera),
                       At(ind.m_cachedCameraViewProj, m_currentFrame))

\* C24 as stated: after every rebuild by a refresh, whether the camera or an
\* animated instance caused it, the view-projection cached for the slot is the
\* one the rebuild culled against and the slot is marked initialized; the
\* caches of the other slots are unchanged.
C24_CacheIsCulledCamera ==
    [][RebuildStep =>
           /\ At(ind'.m_cachedCameraViewProj, m_currentFrame)
                  = getViewProjection(scene.camera)
           /\ At(ind'.m_indirectDrawBuffersInitialized, m_currentFrame)
           /\ OtherCachesKept(m_currentFrame)]_vars

\* C24: after a rebuild caused by the camera the view-projection cached for
\* the slot is the one the rebuild culled against; a rebuild caused only by
\* animated instances leaves the cache as it was, within the threshold of the
\* view-projection it culled against in every element; in both cases the slot
\* is marked initialized and the caches of the other slots are unchanged.
C24_CacheFollowsCamera ==
    [][RebuildStep =>
           /\ IF CameraRebuild
              THEN At(ind'.m_cachedCameraViewProj, m_currentFrame)
                       = getViewProjection(scene.camera)
              ELSE /\ At(ind'.m_cachedCameraViewProj, m_currentFrame)
                          = At(ind.m_cachedCameraViewProj, m_currentFrame)
                   /\ ~ViewProjDiffers(getViewProjection(scene.camera),
                                       At(ind'.m_cachedCameraViewProj, m_currentFrame))
           /\ At(ind'.m_indirectDrawBuffersInitialized, m_currentFrame)
           /\ OtherCachesKept(m_currentFrame)]_vars

\* an animated instance has just made the refresh rebuild the slot's buffer for
\* a camera that is within the threshold of the cached one but not equal to it
C24_Witness ==
    /\ RebuiltThisFrame
    /\ ~NoInstanceAnimated
    /\ At(ind.m_indirectDrawBuffersInitialized, m_currentFrame)
    /\ At(ind.m_cachedCameraViewProj, m_currentFrame) # getViewProjection(scene.camera)
    /\ ~ViewProjDiffers(getViewProjection(scene.camera),
                        At(ind.m_cachedCameraViewProj, m_currentFrame))

\* ------------------------------------------------------------------------
\* Static geometry: the bottom-level structures and the buffers they are built from

\* the resources that hold the static geometry
StaticBuffers == {"vertexBuffer", "indexBuffer", "meshesBuffer", "uvBuffer"}

IsStatic(res) == res[1] \in StaticBuffers \cup {"blas"}

\* the one-shot submissions of the log that write resource res
SubmissionsWriting(log, res) ==
    {k \in 1 .. Len(log) : \E c \in 1 .. Len(log[k].cmds) : res \in log[k].cmds[c].writes}

\* a command stream neither builds a bottom-level structure nor writes static geometry
LeavesGeometryAlone(stream) ==
    \A c \in 1 .. Len(stream) :
        /\ \A res \in stream[c].writes : ~IsStatic(res)
        /\ stream[c].op = "buildAccelerationStructuresKHR" => stream[c].arg[1] = "eUpdate"

Allocated == pc \notin {"alloc", "crashed"}

\* C25: allocation builds exactly one bottom-level structure per mesh, once,
\* and none for anything else; afterwards no step of drawFrame submits a
\* one-shot command buffer, and the command streams recorded for the slots and
\* the submissions in flight neither build, update or write a bottom-level
\* structure nor write the vertex, index, mesh-metadata or UV buffer, each of
\* which was written once by allocation.
C25_GeometryBuiltOnce ==
    /\ [](Allocated =>
            /\ \A m \in 0 .. (Len(scene.meshes) - 1) :
                   Cardinality(SubmissionsWriting(immediateSubmits, Res("blas", m))) = 1
            /\ \A k \in 1 .. Len(immediateSubmits) :
                   \A c \in 1 .. Len(immediateSubmits[k].cmds) :
                       \A res \in immediateSubmits[k].cmds[c].writes :
                           res[1] = "blas" => res[2] \in 0 .. (Len(scene.meshes) - 1)
            /\ \A b \in StaticBuffers :
                   Cardinality(SubmissionsWriting(immediateSubmits, Res(b, -1))) = 1
            /\ \A s \in Slots : LeavesGeometryAlone(commandBuffers[s])
            /\ \A k \in 1 .. Len(gpuQueue) : \A res \in gpuQueue[k].writes : ~IsStatic(res))
    /\ [][Allocated => immediateSubmits' = immediateSubmits]_vars

\* frames have been recorded for both slots and one is in flight, with the
\* structures of all meshes built
C25_Witness ==
    /\ Len(scene.meshes) > 1
    /\ Len(immediateSubmits) >= Len(scene.meshes) + Cardinality(StaticBuffers)
    /\ \A s \in Slots : HasTLASUpdate(commandBuffers[s])
    /\ gpuQueue # << >>

\* ------------------------------------------------------------------------
\* The history of temporal anti-aliasing

\* the commands of the frame have just been recorded
FrameRecorded == pc = "submit"

\* C26: the TAA pass of the first rendered frame samples the current resolved
\* image as its history; the TAA pass of every later frame samples the slot's
\* history image, and that image holds the TAA output of the immediately
\* preceding frame; it has never been left unwritten by the earlier frames.
C26_HistoryIsPrecedingFrame ==
    FrameRecorded =>
        IF history.frameNo = 1
        THEN taa.sampled = <<"resolved", 1>>
        ELSE /\ taa.sampled[1] = "history"
             /\ taa.sampled[2] # NeverWritten
             /\ taa.sampled[2] = history.frameNo - 1

\* ------------------------------------------------------------------------
\* The counts of the indirect draws

\* the draws of a stream for one range of the buffer: "opaque" or "transparent"
RangeDraws(stream, range) ==
    {k \in 1 .. Len(stream) :
        stream[k].op = "drawIndexedIndirect" /\ stream[k].arg[1] = range}

\* the number of commands of the range the stream draws, 0 without a draw
DrawnCount(stream, range) ==
    IF RangeDraws(stream, range) = {} THEN 0
    ELSE stream[CHOOSE k \in RangeDraws(stream, range) : TRUE].arg[4]

\* the draws of the range start at this command of the buffer
DrawnFrom(stream, range, first) ==
    \A k \in RangeDraws(stream, range) : stream[k].arg[3] = first

\* C27: when the commands of slot s have been recorded, the opaque count, the
\* transparent count and the transparent offset of its indirect draws are the
\* numbers of opaque and transparent commands that the most recent rebuild of
\* slot s wrote into the buffer of slot s, and the draws read that buffer.
C27_DrawsUseOwnCounts ==
    FrameRecorded =>
        LET stream == commandBuffers[m_currentFrame]
            own == history.lastRebuild[m_currentFrame]
        IN  /\ DrawnCount(stream, "opaque") = own.opaque
            /\ DrawnCount(stream, "transparent") = own.transparent
            /\ DrawnFrom(stream, "opaque", 0)
            /\ DrawnFrom(stream, "transparent", own.opaque)
            /\ \A k \in 1 .. Len(stream) :
                   stream[k].op = "drawIndexedIndirect" => stream[k].arg[2] = m_currentFrame

\* ------------------------------------------------------------------------
\* The acquire semaphores

\* acquireNextImage has just been called, whatever it returned
AcquireStep == pc = "acquire" /\ pc' # "acquire"

\* the semaphores the submitted, unfinished frames wait on before they write
\* their image
AwaitedSemaphores == {gpuQueue[k].waitSemaphore : k \in 1 .. Len(gpuQueue)}

\* C28: with at least MAX_FRAMES_IN_FLIGHT swapchain images, the semaphore
\* handed to acquireNextImage is never one that a submitted, unfinished frame
\* waits on, whether the acquisition succeeds or the frame is abandoned and the
\* next call hands over the same semaphore again.
C28_AcquireSemaphoreFree ==
    [][(AcquireStep /\ ImageCount >= MAX_FRAMES_IN_FLIGHT) =>
           /\ sync'.acquireSemaphore = m_semaphoreIndex
           /\ sync'.acquireSemaphore \notin AwaitedSemaphores
           /\ pc' = "idle" => m_semaphoreIndex' = m_semaphoreIndex]_vars

\* an image has been acquired while the frame before is unfinished, at a point
\* where the semaphore index and the slot index have drifted apart
C28_Witness ==
    /\ pc = "update"
    /\ gpuQueue # << >>
    /\ sync.acquireSemaphore = m_semaphoreIndex
    /\ m_semaphoreIndex # m_currentFrame
    /\ AwaitedSemaphores # {}

\* ------------------------------------------------------------------------
\* The command buffers

\* cmd.reset() on the command buffer of the slot, or its recording
ResetOrRecordStep == (pc = "reset" /\ pc' = "record") \/ RecordStep

\* the per-slot command buffers of the submissions the GPU has not finished
PendingCommandBuffers == {gpuQueue[k].slot : k \in 1 .. Len(gpuQueue)}

\* C29: the command buffer of a slot is reset and recorded only while no
\* submission of it is pending on the GPU, however drawFrame calls and GPU
\* completions interleave, and no one-shot submission ever uses the command
\* buffer of a slot.
C29_CommandBufferFree ==
    /\ [][ResetOrRecordStep => m_currentFrame \notin PendingCommandBuffers]_vars
    /\ [](\A k \in 1 .. Len(immediateSubmits) :
              immediateSubmits[k].commandBuffer \notin PerSlotCommandBuffers)

\* the command buffer of a slot that was recorded before has been reset for a
\* new recording while the frame of the other slot is pending, after the
\* one-shot submissions of allocation
C29_Witness ==
    /\ pc = "record"
    /\ commandBuffers[m_currentFrame] = << >>
    /\ taa.m_taaHistoryImages[m_currentFrame] # NeverWritten
    /\ PendingCommandBuffers = Slots \ {m_currentFrame}
    /\ immediateSubmits # << >>

\* ------------------------------------------------------------------------
\* The two instance buffers of a slot

\* the transform of instance j in the slot's rasterisation instance buffer,
\* as the TLAS stores transforms
RasterTransform(s, j) == TransformMatrixKHR(m_instanceBuffersMapped[s][j].transform)

\* the transform of instance j in the slot's TLAS instance buffer
TLASTransform(s, j) == m_blasInstancesBuffersMapped[s][j]

\* C30: when the commands of a frame have been recorded on slot s, the
\* transform of every instance, animated or not, in the rasterisation instance
\* buffer of s equals its transform in the TLAS instance buffer of s, whatever
\* the animator changed between the frames.
C30_RasterAndTLASAgree ==
    FrameRecorded =>
        \A j \in 1 .. Len(scene.instances) :
            RasterTransform(m_currentFrame, j) = TLASTransform(m_currentFrame, j)

====
